---- MODULE Spec2Model ----
(***************************************************************************)
(* Model of the generate-music route handler                               *)
(* (src/app/api/generate-music/route.ts, POST, lines 141-483) and of the   *)
(* text helper it uses (lib/gemini, src/unnamed/part_010); of the two      *)
(* older endpoints (src/unnamed/part_007, src/app/api/gemini/route.ts);    *)
(* and of the request operations of the Whiteboard component               *)
(* (src/app/_components/Whiteboard.tsx).                                   *)
(*                                                                         *)
(* One behaviour is one request.  The handler is an async function: it     *)
(* runs to completion between two awaits, so every action below is the     *)
(* code that runs from the resumption of one await up to the next await    *)
(* (or up to the return).  The external services and the caller are the    *)
(* environment: what a fetch returns is chosen with \E.                    *)
(*                                                                         *)
(* Texts are sequences of tokens (strings); " " is a whitespace token.     *)
(***************************************************************************)
EXTENDS Integers, Sequences, FiniteSets, TLC

\* ------------------------------------------------------------------ bounds
\* longest boards list of a request of Init
MaxBoards == 1
\* longest boards list of a request of InitEligibility
MaxFilterBoards == 2
\* longest boards list of a request of InitBriefs
MaxBriefBoards == 5
\* longest boards list of a request of InitRefine
MaxRefineBoards == 2
\* longest boards list of a request of InitModes
MaxModeBoards == 1
\* longest boards list of a plain request of InitTerm
MaxTermBoards == 1
\* longest boards list of a request of InitDuration
MaxDurationBoards == 4

\* ------------------------------------------------------- program constants
\* the attempt ceiling of the poll loops
MaxAttempts == 90
\* b.imageBase64.length > 100
MinImageLength == 100
\* (b.strokeCount || 0) >= 5
MinStrokeCount == 5
\* validBoards.slice(0, Math.min(validBoards.length, 4))
MaxLimitedBoards == 4
\* totalDuration default
DefaultTotalDuration == 60

\* ------------------------------------------------------------ JS values
\* a numeric field that is absent from the JSON body (undefined)
NoNum == -1
\* a text field that is absent (undefined / null)
Undef == <<"<undefined>">>
\* a string field that is absent, or null
Null == "null"
Absent == "absent"

\* JS truthiness of a text value: undefined, null and "" are falsy
Truthy(t) == t # Undef /\ t # <<>>

\* t.trim() on a text: drop the leading and trailing whitespace tokens
RECURSIVE TrimLeft(_)
TrimLeft(t) == IF t # <<>> /\ Head(t) = " " THEN TrimLeft(Tail(t)) ELSE t
RECURSIVE TrimRight(_)
TrimRight(t) ==
    IF t # <<>> /\ t[Len(t)] = " " THEN TrimRight(SubSeq(t, 1, Len(t) - 1)) ELSE t
Trim(t) == TrimRight(TrimLeft(t))

\* JS truthiness of a string field: undefined, null and "" are falsy
TruthyStr(s) == s # Null /\ s # ""

\* --------------------------------------------------- lib/gemini helper
\* A vision-language response body: the two shapes the helper knows.
\* candidates/output tell whether the field exists; text1 / text2 are
\* candidates[0].content.parts[0].text and output[0].content.text
\* (Undef when the path leads nowhere).
GeminiData(c, t1, o, t2) == [candidates |-> c, text1 |-> t1, output |-> o, text2 |-> t2]

\* JSON.stringify(data): the raw payload printed as text, never empty
Stringify(d) ==
    <<"{">> \o (IF d.candidates THEN <<"candidates">> ELSE <<>>)
            \o (IF d.output THEN <<"output">> ELSE <<>>) \o <<"}">>

extractTextFromGemini(d) ==
    IF Truthy(d.text1) THEN d.text1
    ELSE IF Truthy(d.text2) THEN d.text2
    ELSE Stringify(d)

\* ------------------------------------------------ compose status payload
\* The object the track reference is read from.
TrackFields(tu, tU, tr) == [track_url |-> tu, trackUrl |-> tU, track |-> tr]
TrackObj(d, u) == <<[downloadUrl |-> d, url |-> u]>>
NoTrackFields == TrackFields(Null, Null, <<>>)

\* stJson: status, meta (<<>> when absent or null) and the top-level fields
StatusJson(st, m, top) == [status |-> st, meta |-> m, top |-> top]
NoStatusJson == StatusJson(Absent, <<>>, NoTrackFields)

\* variant of MetaOrSelf: the track is always read from the payload itself
MetaOrSelfTopLevel(stJson) == stJson.top

\* stJson?.meta || stJson
MetaOrSelf(stJson) == IF stJson.meta # <<>> THEN stJson.meta[1] ELSE stJson.top

\* variant of ExtractTrackUrl: trackUrl is read before track_url
ExtractTrackUrlSwapped(m) ==
    IF TruthyStr(m.trackUrl) THEN m.trackUrl
    ELSE IF TruthyStr(m.track_url) THEN m.track_url
    ELSE IF m.track # <<>> /\ TruthyStr(m.track[1].downloadUrl) THEN m.track[1].downloadUrl
    ELSE IF m.track # <<>> /\ TruthyStr(m.track[1].url) THEN m.track[1].url
    ELSE Null

\* finalMeta.track_url || finalMeta.trackUrl || finalMeta.track?.downloadUrl
\*   || finalMeta.track?.url || null
ExtractTrackUrl(m) ==
    IF TruthyStr(m.track_url) THEN m.track_url
    ELSE IF TruthyStr(m.trackUrl) THEN m.trackUrl
    ELSE IF m.track # <<>> /\ TruthyStr(m.track[1].downloadUrl) THEN m.track[1].downloadUrl
    ELSE IF m.track # <<>> /\ TruthyStr(m.track[1].url) THEN m.track[1].url
    ELSE Null

\* ------------------------------------------------------------ responses
\* NextResponse.json(obj, { status }): fields names the keys of obj.
BaseResponse ==
    [http |-> 0, fields |-> {}, error |-> Absent, status |-> Absent,
     task_id |-> Absent, trackUrl |-> Absent, beatoven |-> NoStatusJson,
     composeJson |-> Absent, beatovenPrompt |-> Undef, beatovenMeta |-> NoTrackFields,
     perBoardResults |-> <<>>, perBoardDurations |-> <<>>, combinedPrompt |-> Undef]

ErrorNoKeys == "API keys not set"
ErrorNoBoards == "No boards provided"
ErrorNoValidBoards == "No valid boards to analyze"
ErrorNoTaskId == "No task_id returned"
ErrorFailed == "Beatoven composition failed"
ErrorTimedOut == "Beatoven compose timed out"
ErrorAdjustFailed == "Adjustment failed"
ErrorNoAdjusted == "Failed to generate adjusted prompt"
ErrorThrown == "thrown error message"
StatusTimedOut == "timed_out"

\* compose submission response body (composeJson)
ComposeJson(t, d) == [task_id |-> t, detail |-> d]
NoComposeJson == ComposeJson(Absent, Absent)

\* -------------------------------------------------------------- requests
BoardIds == <<"b1", "b2", "b3", "b4", "b5", "b6", "b7">>

\* a board of the request: imageLen is imageBase64.length (NoNum when the
\* field is absent), strokeCount is NoNum when the field is absent
Board(i, n, len, sc) == [id |-> BoardIds[i], name |-> n, imageLen |-> len, strokeCount |-> sc]

\* the shapes of board the requests of Init are made of:
\* an uploaded image, a drawing of 5 strokes, a nearly empty board
StrokesKind == [name |-> Null, imageLen |-> NoNum, strokeCount |-> MinStrokeCount]
SparseKind == [name |-> Null, imageLen |-> MinImageLength, strokeCount |-> MinStrokeCount - 1]

BoardLists(kinds, maxLen) ==
    UNION { { [i \in 1..n |-> Board(i, k[i].name, k[i].imageLen, k[i].strokeCount)] :
              k \in [1..n -> kinds] } : n \in 0..maxLen }

StoredPrompt == <<"calm", "piano">>

Bodies(boardLists) ==
    [ boards : boardLists,
      totalDuration : { NoNum },
      retryMode : BOOLEAN,
      adjustMode : BOOLEAN,
      beatovenPrompt : { Undef, StoredPrompt },
      adjustInstructions : { Undef, <<" ">>, <<"faster">> } ]

\* a request with no mode flag, no stored prompt and no instructions
IsPlainBody(b) ==
    /\ ~b.retryMode
    /\ ~b.adjustMode
    /\ b.beatovenPrompt = Undef
    /\ b.adjustInstructions = Undef

\* the requests of Init: the plain requests with every list of boards, and
\* every combination of the mode fields with boards that are nearly empty
FreshBodies == { b \in Bodies(BoardLists({ [name |-> "sky", imageLen |-> MinImageLength + 1, strokeCount |-> NoNum],
                                        StrokesKind, SparseKind }, MaxBoards)) : IsPlainBody(b) }
ModeBodies == Bodies(BoardLists({ SparseKind }, MaxBoards))

\* process.env: whether each credential is set
Envs == [ geminiKey : BOOLEAN, beatovenKey : BOOLEAN ]

\* ------------------------------------------------ what the services return
TaskIds == { "t1", "t2" }

\* compose submission: the body read throws, or a JSON body
ComposeOutcomes ==
    { [throws |-> TRUE, json |-> NoComposeJson] }
    \cup { [throws |-> FALSE, json |-> ComposeJson(t, Absent)] : t \in TaskIds }
    \cup { [throws |-> FALSE, json |-> ComposeJson(Null, "quota exceeded")],
           [throws |-> FALSE, json |-> ComposeJson("", Absent)] }

\* composed payloads: track in meta, track.url at top level without meta,
\* meta without any track reference
\* one status poll: the fetch or the body read throws, a non-success HTTP
\* status, or a success with a JSON body
PollOutcomes ==
    LET ComposedJsons ==
            { StatusJson("composed", <<TrackFields("u-track_url", "u-trackUrl", <<>>)>>,
                         NoTrackFields),
              StatusJson("composed", <<>>, TrackFields(Null, Null, TrackObj(Null, "u-url"))),
              StatusJson("composed", <<NoTrackFields>>,
                         TrackFields("u-track_url", Null, <<>>)) }
        FailedJsons ==
            { StatusJson("failed", <<>>, NoTrackFields),
              StatusJson("error", <<NoTrackFields>>, NoTrackFields) }
        PendingJsons ==
            { StatusJson("composing", <<>>, NoTrackFields) }
    IN  { [throws |-> TRUE, ok |-> FALSE, json |-> NoStatusJson],
          [throws |-> FALSE, ok |-> FALSE,
           json |-> StatusJson("failed", <<>>, NoTrackFields)] }
        \cup { [throws |-> FALSE, ok |-> TRUE, json |-> j] :
                 j \in ComposedJsons \cup FailedJsons \cup PendingJsons }

\* vision-language responses
GoodText == <<"Background", "music:", "warm", "strings">>
RefinedText == <<"REFINED_PROMPT:", " ", "one", "calm", "track", " ">>
GeminiDatas(text) ==
    { GeminiData(TRUE, text, FALSE, Undef),
      GeminiData(FALSE, Undef, TRUE, text),
      GeminiData(TRUE, <<>>, FALSE, Undef),
      GeminiData(TRUE, <<" ">>, FALSE, Undef),
      GeminiData(FALSE, Undef, FALSE, Undef) }

GeminiOutcomes(text) ==
    { [throws |-> TRUE, ok |-> FALSE, data |-> GeminiData(FALSE, Undef, FALSE, Undef)],
      [throws |-> FALSE, ok |-> FALSE, data |-> GeminiData(FALSE, Undef, FALSE, Undef)] }
    \cup { [throws |-> FALSE, ok |-> TRUE, data |-> d] : d \in GeminiDatas(text) }

\* refiner replies: the requested format, no marker at all, a preface and
\* a marker in lower case, a marker with nothing after it
PlainRefinedText == <<"one", "calm", "track">>
RefineOutcomes ==
    GeminiOutcomes(RefinedText)
    \cup { [throws |-> FALSE, ok |-> TRUE, data |-> GeminiData(TRUE, t, FALSE, Undef)] :
             t \in { PlainRefinedText,
                     <<"Sure.", " ", "refined_prompt:", " ", "one", "calm", "track">>,
                     <<"REFINED_PROMPT:", " ">> } }

\* ---------------------------------------------------------------- state
VARIABLES
    body,              \* the parsed request body (req.json())
    env,               \* the credentials of process.env
    pc,                \* the await the handler is suspended at, or "done"
    path,              \* the branch of the handler taken: none, retry, adjust, fresh
    validBoards,       \* fresh: boards that pass the filter
    limitedBoards,     \* fresh: the first boards of validBoards
    inflight,          \* fresh: indices of the brief calls not yet settled
    perBoardResults,   \* fresh: results of processBoard, by index
    combinedPrompt,    \* fresh: the prompt built from the results
    refinedPrompt,     \* fresh: the refiner's prompt or Undef (null)
    promptToSend,      \* the text of the compose submission
    taskId,            \* composeJson?.task_id
    attempts,          \* poll loop counter
    finalMeta,         \* <<>> (null) or <<object the track is read from>>
    response,          \* the response returned, BaseResponse until then
    taskStatus,        \* the CompositionTask status the control flow is in
    geminiCalls,       \* calls issued to the vision-language service, by kind
    submitted,         \* the prompt texts submitted to the compose service
    polls,             \* status polls issued
    transients,        \* status polls that came back without a terminal status
    lastPoll,          \* the outcome of the latest status poll
    abortedAt,         \* the await the handler was at when the caller raised its
                       \* cancellation signal, "never" until then
    polledAfterAbort,  \* a status poll was issued after that
    \* the Whiteboard component
    stage,             \* 'idle', 'analyzing', 'composing', 'done' or 'cancelled'
    analyzing,         \* a generate-music request is in flight
    error,             \* the error shown to the user, Null when none
    abortCtrlRef,      \* abortCtrlRef.current holds a controller
    lastBeatovenPrompt,        \* the prompt kept for retry and adjust, Undef (null)
    clientAdjustInstructions,  \* the text of the adjustment field
    request,           \* the operation whose fetch has not settled: "none",
                       \* "analyze", "retry" or "adjust"
    signalAborted,     \* the signal of that fetch is aborted
    received           \* the operation that settled last and the body it read

vars == << body, env, pc, path, validBoards, limitedBoards, inflight, perBoardResults,
           combinedPrompt, refinedPrompt, promptToSend, taskId, attempts, finalMeta,
           response, taskStatus, geminiCalls, submitted, polls, transients, lastPoll,
           abortedAt, polledAfterAbort,
           stage, analyzing, error, abortCtrlRef, lastBeatovenPrompt,
           clientAdjustInstructions, request, signalAborted, received >>

\* the state of the handler, the state of the Whiteboard component
handler == << body, env, pc, path, validBoards, limitedBoards, inflight, perBoardResults,
              combinedPrompt, refinedPrompt, promptToSend, taskId, attempts, finalMeta,
              response, taskStatus, geminiCalls, submitted, polls, transients, lastPoll,
              abortedAt, polledAfterAbort >>
client == << stage, analyzing, error, abortCtrlRef, lastBeatovenPrompt,
             clientAdjustInstructions, request, signalAborted, received >>

\* the component as it mounts
InitClient ==
    /\ stage = "idle"
    /\ analyzing = FALSE
    /\ error = Null
    /\ abortCtrlRef = FALSE
    /\ lastBeatovenPrompt = Undef
    /\ clientAdjustInstructions = <<>>
    /\ request = "none"
    /\ signalAborted = FALSE
    /\ received = [by |-> "none", thrown |-> FALSE, data |-> BaseResponse]

NoPoll == [throws |-> FALSE, ok |-> FALSE, json |-> StatusJson("none", <<>>, NoTrackFields)]

InitHandler ==
    /\ pc = "start"
    /\ path = "none"
    /\ validBoards = <<>>
    /\ limitedBoards = <<>>
    /\ inflight = {}
    /\ perBoardResults = <<>>
    /\ combinedPrompt = Undef
    /\ refinedPrompt = Undef
    /\ promptToSend = Undef
    /\ taskId = Null
    /\ attempts = 0
    /\ finalMeta = <<>>
    /\ response = BaseResponse
    /\ taskStatus = "None"
    /\ geminiCalls = [brief |-> 0, refine |-> 0, adjust |-> 0]
    /\ submitted = <<>>
    /\ polls = 0
    /\ transients = 0
    /\ lastPoll = NoPoll
    /\ abortedAt = "never"
    /\ polledAfterAbort = FALSE
    /\ InitClient

Init ==
    /\ body \in FreshBodies \cup ModeBodies
    /\ env \in Envs
    /\ InitHandler

\* ------------------------------------------------- locals of the handler
boards == body.boards
totalDuration == IF body.totalDuration # NoNum THEN body.totalDuration ELSE DefaultTotalDuration
retryMode == body.retryMode
adjustMode == body.adjustMode
beatovenPrompt == body.beatovenPrompt
adjustInstructions == body.adjustInstructions

\* if (!geminiKey || !beatovenKey)
\* variant of KeysSet: only the key of the first service called is tested
KeysSetGeminiOnly == env.geminiKey

KeysSet == env.geminiKey /\ env.beatovenKey
\* variant of TakesRetry: either mode flag resubmits the stored prompt
TakesRetryEitherFlag == (retryMode \/ adjustMode) /\ Truthy(beatovenPrompt)

\* variant of TakesRetry: the stored prompt is not tested
TakesRetryFlagOnly == retryMode

\* if (retryMode && beatovenPrompt)
TakesRetry == retryMode /\ Truthy(beatovenPrompt)
\* if (adjustMode && beatovenPrompt && adjustInstructions)
TakesAdjust == adjustMode /\ Truthy(beatovenPrompt) /\ Truthy(adjustInstructions)

\* variant of IsValidBoard: imageBase64.length >= 100
IsValidBoardInclusiveLength(b) ==
    \/ (b.imageLen # NoNum /\ b.imageLen > 0 /\ b.imageLen >= MinImageLength)
    \/ (IF b.strokeCount = NoNum THEN 0 ELSE b.strokeCount) >= MinStrokeCount

\* variant of IsValidBoard: strokeCount > 5
IsValidBoardStrictStrokes(b) ==
    \/ (b.imageLen # NoNum /\ b.imageLen > 0 /\ b.imageLen > MinImageLength)
    \/ (IF b.strokeCount = NoNum THEN 0 ELSE b.strokeCount) > MinStrokeCount

\* the filter predicate of validBoards
IsValidBoard(b) ==
    \/ (b.imageLen # NoNum /\ b.imageLen > 0 /\ b.imageLen > MinImageLength)
    \/ (IF b.strokeCount = NoNum THEN 0 ELSE b.strokeCount) >= MinStrokeCount

\* boards.filter(pred): the elements that satisfy pred, in order
RECURSIVE FilterBoards(_)
FilterBoards(bs) ==
    IF bs = <<>> THEN <<>>
    ELSE IF IsValidBoard(Head(bs)) THEN <<Head(bs)>> \o FilterBoards(Tail(bs))
    ELSE FilterBoards(Tail(bs))

Min(a, b) == IF a < b THEN a ELSE b
Max(a, b) == IF a > b THEN a ELSE b

\* variant of LimitBoards: the last boards are kept, slice(-4)
LimitBoardsLast(vb) == SubSeq(vb, Len(vb) - Min(Len(vb), MaxLimitedBoards) + 1, Len(vb))

\* validBoards.slice(0, Math.min(validBoards.length, 4))
LimitBoards(vb) == SubSeq(vb, 1, Min(Len(vb), MaxLimitedBoards))

\* durationMap[num] || Math.max(15, Math.floor(totalDuration / num))
durationMap == [n \in 1..4 |-> CASE n = 1 -> 60 [] n = 2 -> 30 [] n = 3 -> 20 [] n = 4 -> 15]
\* variant of PerBoardDuration: the table is not consulted
PerBoardDurationFromTotal(num, total) == Max(15, total \div num)

PerBoardDuration(num, total) ==
    IF num \in DOMAIN durationMap THEN durationMap[num] ELSE Max(15, total \div num)

\* -------------------------------------------------------- response bodies
\* variant of ErrorResponse: every error is reported with status 500
ErrorResponseAlways500(msg, http) ==
    [BaseResponse EXCEPT !.http = 500, !.fields = {"error"}, !.error = msg]

ErrorResponse(msg, http) ==
    [BaseResponse EXCEPT !.http = http, !.fields = {"error"}, !.error = msg]

\* the fields every response of the fresh branch carries after the briefs
PathFields(p) == IF p = "fresh" THEN {"perBoardResults"} ELSE {}
PathResults(p, results) == IF p = "fresh" THEN results ELSE <<>>

\* variant of NoTaskIdResponse: the submission response is left out
NoTaskIdResponseNoRaw(p, results, cj) ==
    [BaseResponse EXCEPT !.http = 500,
        !.fields = PathFields(p) \cup {"error"},
        !.perBoardResults = PathResults(p, results),
        !.error = ErrorNoTaskId]

NoTaskIdResponse(p, results, cj) ==
    [BaseResponse EXCEPT !.http = 500,
        !.fields = PathFields(p) \cup {"error", "composeJson"},
        !.perBoardResults = PathResults(p, results),
        !.error = ErrorNoTaskId, !.composeJson = cj]

\* variant of FailedResponse: the status payload is left out
FailedResponseNoPayload(p, results, stJson) ==
    [BaseResponse EXCEPT !.http = 500,
        !.fields = PathFields(p) \cup {"error"},
        !.perBoardResults = PathResults(p, results),
        !.error = ErrorFailed]

FailedResponse(p, results, stJson) ==
    [BaseResponse EXCEPT !.http = 500,
        !.fields = PathFields(p) \cup {"beatoven", "error"},
        !.perBoardResults = PathResults(p, results),
        !.beatoven = stJson, !.error = ErrorFailed]

\* variant of TimedOutResponse: the failure body is reused for the timeout
TimedOutResponseAsFailure(p, results, tid) ==
    [BaseResponse EXCEPT !.http = 500,
        !.fields = PathFields(p) \cup {"task_id", "error"},
        !.perBoardResults = PathResults(p, results),
        !.task_id = tid, !.error = ErrorFailed]

TimedOutResponse(p, results, tid) ==
    [BaseResponse EXCEPT !.http = 500,
        !.fields = PathFields(p) \cup {"task_id", "status", "error"},
        !.perBoardResults = PathResults(p, results),
        !.task_id = tid, !.status = StatusTimedOut, !.error = ErrorTimedOut]

PerBoardDurations(results) ==
    [i \in DOMAIN results |-> [id |-> results[i].id, duration |-> results[i].segment_duration]]

\* variant of SuccessResponse: the prompt is not returned
SuccessResponseNoPrompt(p, results, combined, prompt, tid, fm) ==
    [BaseResponse EXCEPT !.http = 200,
        !.fields = (IF p = "fresh"
                    THEN {"perBoardResults", "perBoardDurations", "combinedPrompt"}
                    ELSE {})
                   \cup {"task_id", "trackUrl", "beatovenMeta"},
        !.perBoardResults = PathResults(p, results),
        !.perBoardDurations = IF p = "fresh" THEN PerBoardDurations(results) ELSE <<>>,
        !.combinedPrompt = IF p = "fresh" THEN combined ELSE Undef,
        !.task_id = tid,
        !.trackUrl = ExtractTrackUrl(fm), !.beatovenMeta = fm]

\* variant of SuccessResponse: the prompt returned is the one of the request
SuccessResponseStoredPrompt(p, results, combined, prompt, tid, fm) ==
    [BaseResponse EXCEPT !.http = 200,
        !.fields = (IF p = "fresh"
                    THEN {"perBoardResults", "perBoardDurations", "combinedPrompt"}
                    ELSE {})
                   \cup {"beatovenPrompt", "task_id", "trackUrl", "beatovenMeta"},
        !.perBoardResults = PathResults(p, results),
        !.perBoardDurations = IF p = "fresh" THEN PerBoardDurations(results) ELSE <<>>,
        !.combinedPrompt = IF p = "fresh" THEN combined ELSE Undef,
        !.beatovenPrompt = body.beatovenPrompt, !.task_id = tid,
        !.trackUrl = ExtractTrackUrl(fm), !.beatovenMeta = fm]

SuccessResponse(p, results, combined, prompt, tid, fm) ==
    [BaseResponse EXCEPT !.http = 200,
        !.fields = (IF p = "fresh"
                    THEN {"perBoardResults", "perBoardDurations", "combinedPrompt"}
                    ELSE {})
                   \cup {"beatovenPrompt", "task_id", "trackUrl", "beatovenMeta"},
        !.perBoardResults = PathResults(p, results),
        !.perBoardDurations = IF p = "fresh" THEN PerBoardDurations(results) ELSE <<>>,
        !.combinedPrompt = IF p = "fresh" THEN combined ELSE Undef,
        !.beatovenPrompt = prompt, !.task_id = tid,
        !.trackUrl = ExtractTrackUrl(fm), !.beatovenMeta = fm]

\* ------------------------------------------------------- brief results
\* board.name || `board-${index + 1}`
ResultName(board, index) == IF TruthyStr(board.name) THEN board.name ELSE <<"board-1", "board-2", "board-3", "board-4">>[index]

\* the value of a raw field that is absent
NoRaw == GeminiData(FALSE, Undef, FALSE, Undef)

PendingResult ==
    [id |-> Absent, name |-> Absent, fields |-> {}, brief |-> Undef, raw |-> NoRaw,
     error |-> Absent, strokeCount |-> NoNum, segment_duration |-> NoNum]

OkResult(board, index, briefText, geminiData, duration) ==
    [id |-> board.id, name |-> ResultName(board, index),
     fields |-> {"id", "name", "brief", "raw", "strokeCount", "segment_duration"},
     brief |-> briefText, raw |-> geminiData, error |-> Absent,
     strokeCount |-> IF board.strokeCount = NoNum THEN 0 ELSE board.strokeCount,
     segment_duration |-> duration]

ErrorResult(board, index, msg) ==
    [id |-> board.id, name |-> ResultName(board, index),
     fields |-> {"id", "name", "error"},
     brief |-> Undef, raw |-> NoRaw, error |-> msg,
     strokeCount |-> NoNum, segment_duration |-> NoNum]

\* !geminiData || (!geminiData.candidates && !geminiData.output)
InvalidStructure(d) == ~d.candidates /\ ~d.output

\* the body of processBoard after its fetch has settled with outcome o
ProcessBoard(board, index, duration, o) ==
    IF o.throws THEN ErrorResult(board, index, ErrorThrown)
    ELSE IF ~o.ok THEN ErrorResult(board, index, "Gemini API error")
    ELSE IF InvalidStructure(o.data)
         THEN ErrorResult(board, index, "Invalid Gemini API response structure")
    ELSE IF ~Truthy(Trim(extractTextFromGemini(o.data)))
         THEN ErrorResult(board, index, "Empty response from Gemini API")
    ELSE OkResult(board, index, Trim(extractTextFromGemini(o.data)), o.data, duration)

\* ---------------------------------------------------------- prompt texts
\* `${n}` of a number, "undefined" when the value is absent
NumText(n) == IF n = NoNum THEN "undefined" ELSE ToString(n)
\* `${r.brief || r.raw}`: the error results have neither
BriefOrRaw(r) == IF Truthy(r.brief) THEN r.brief ELSE <<"undefined">>

\* variant of SegmentText: the duration annotation is left out
SegmentTextNoDuration(r, idx) ==
    <<"Segment", ToString(idx), "(", IF TruthyStr(r.name) THEN r.name ELSE r.id, "):">>
    \o BriefOrRaw(r)

\* `Segment ${idx + 1} (${r.name || r.id}): ${r.brief || r.raw} Duration: ${r.segment_duration}s.`
SegmentText(r, idx) ==
    <<"Segment", ToString(idx), "(", IF TruthyStr(r.name) THEN r.name ELSE r.id, "):">>
    \o BriefOrRaw(r) \o <<"Duration:", NumText(r.segment_duration), "s.">>

\* perBoardResults.map(...).join('\n\n')
RECURSIVE JoinSegments(_, _)
JoinSegments(results, idx) ==
    IF idx > Len(results) THEN <<>>
    ELSE SegmentText(results[idx], idx)
         \o (IF idx < Len(results) THEN <<"\n\n">> ELSE <<>>)
         \o JoinSegments(results, idx + 1)

SharedHints(total) == <<"Ensure", "coherence:", "crossfade", "Output", ToString(total), "s">>

\* `Compose a single ${totalDuration}-second track composed of ${num} ordered
\*  segments. ${sharedHints}\n\n${combinedSegmentsText}`
CombinedPrompt(results, total) ==
    <<"Compose", ToString(total), "second", "track", ToString(Len(results)), "segments.">>
    \o SharedHints(total) \o <<"\n\n">> \o JoinSegments(results, 1)

\* `Segment ${idx + 1} (${r.id || r.name}): ${r.brief || r.raw} Duration: ${r.segment_duration}s.`
RefinerSegmentText(r, idx) ==
    <<"Segment", ToString(idx), "(", IF TruthyStr(r.id) THEN r.id ELSE r.name, "):">>
    \o BriefOrRaw(r) \o <<"Duration:", NumText(r.segment_duration), "s.">>

\* refinerContents: the instructions, then one part per result, pushed by
\* perBoardResults.forEach
RefinerContents(results) ==
    <<<<"refinerHuman">>>> \o [i \in DOMAIN results |-> RefinerSegmentText(results[i], i)]

\* variant of Markers: the regular expression without the i flag
MarkersExactCase == { "REFINED_PROMPT:" }

\* the marker of the regular expression, matched with the i flag
Markers == { "REFINED_PROMPT:", "refined_prompt:", "Refined_Prompt:" }

\* refText.match(/REFINED_PROMPT:\s*([\s\S]*)/i)?.[1].trim(): the text after
\* the first marker, Undef when there is no marker
RECURSIVE AfterMarker(_)
AfterMarker(t) ==
    IF t = <<>> THEN Undef
    ELSE IF Head(t) \in Markers THEN Trim(Tail(t))
    ELSE AfterMarker(Tail(t))

\* ... || refText
RefinedFrom(refText) == IF Truthy(AfterMarker(refText)) THEN AfterMarker(refText) ELSE refText

\* the refiner block after its fetch has settled with outcome o:
\* the value of refinedPrompt (Undef stands for null)
Refine(o) ==
    IF o.throws \/ ~o.ok \/ InvalidStructure(o.data) THEN Undef
    ELSE IF ~Truthy(Trim(extractTextFromGemini(o.data))) THEN Undef
    ELSE RefinedFrom(Trim(extractTextFromGemini(o.data)))

\* variant of PromptToSend: the refined prompt is sent whatever it is
PromptToSendNoFallback(refined, combined) == refined

\* const promptToSend = refinedPrompt || combinedPrompt
PromptToSend(refined, combined) == IF Truthy(refined) THEN refined ELSE combined

\* ---------------------------------------------------------------- actions
Respond(r) ==
    /\ response' = r
    /\ pc' = "done"

\* fetch(`${beatovenBase}/api/v1/tracks/compose`, { prompt: { text } })
SubmitCompose(text) ==
    /\ promptToSend' = text
    /\ submitted' = Append(submitted, text)
    /\ pc' = "composeAwait"

\* variant of LoopContinues: attempts++ <= 90
LoopContinuesInclusive(att) == att <= MaxAttempts

\* while (attempts++ < 90)
LoopContinues(att) == att < MaxAttempts

\* the code after the poll loop
AfterLoop(fm, status, tid) ==
    IF fm = <<>>
    THEN /\ taskStatus' = "TimedOut"
         /\ Respond(TimedOutResponse(path, perBoardResults, tid))
    ELSE /\ taskStatus' = status
         /\ Respond(SuccessResponse(path, perBoardResults, combinedPrompt, promptToSend,
                                    tid, fm[1]))

\* the loop test and, when it passes, the status fetch of the iteration;
\* st is the task status the loop is entered or re-entered with
LoopTest(att, st, tid) ==
    /\ attempts' = att + 1
    /\ IF LoopContinues(att)
       THEN /\ polls' = polls + 1
            /\ polledAfterAbort' = (polledAfterAbort \/ abortedAt # "never")
            /\ pc' = "pollAwait"
            /\ taskStatus' = st
            /\ UNCHANGED response
       ELSE /\ AfterLoop(finalMeta, st, tid)
            /\ UNCHANGED << polls, polledAfterAbort >>

\* the request body is parsed; a credential is missing
EnterNoKeys ==
    /\ pc = "start"
    /\ ~KeysSet
    /\ Respond(ErrorResponse(ErrorNoKeys, 500))
    /\ UNCHANGED client
    /\ UNCHANGED << body, env, path, validBoards, limitedBoards, inflight, perBoardResults,
                    combinedPrompt, refinedPrompt, promptToSend, taskId, attempts, finalMeta,
                    taskStatus, geminiCalls, submitted, polls, transients, lastPoll,
                    abortedAt, polledAfterAbort >>

\* retry branch: the stored prompt is submitted as it is
EnterRetry ==
    /\ pc = "start"
    /\ KeysSet
    /\ TakesRetry
    /\ path' = "retry"
    /\ SubmitCompose(beatovenPrompt)
    /\ UNCHANGED client
    /\ UNCHANGED << body, env, validBoards, limitedBoards, inflight, perBoardResults,
                    combinedPrompt, refinedPrompt, taskId, attempts, finalMeta, response,
                    taskStatus, geminiCalls, polls, transients, lastPoll,
                    abortedAt, polledAfterAbort >>

\* adjust branch: the revision call is issued
EnterAdjust ==
    /\ pc = "start"
    /\ KeysSet
    /\ ~TakesRetry
    /\ TakesAdjust
    /\ path' = "adjust"
    /\ geminiCalls' = [geminiCalls EXCEPT !.adjust = @ + 1]
    /\ pc' = "adjustAwait"
    /\ UNCHANGED client
    /\ UNCHANGED << body, env, validBoards, limitedBoards, inflight, perBoardResults,
                    combinedPrompt, refinedPrompt, promptToSend, taskId, attempts, finalMeta,
                    response, taskStatus, submitted, polls, transients, lastPoll,
                    abortedAt, polledAfterAbort >>

AdjustedText == <<"calm", "piano", "faster">>

\* variant of AdjustedPrompt: the stored prompt is submitted again
AdjustedPromptIgnored(d) == beatovenPrompt

\* const adjustedPrompt = extractTextFromGemini(adjustData).trim()
AdjustedPrompt(d) == Trim(extractTextFromGemini(d))

\* the revision call has settled
AdjustDone ==
    /\ pc = "adjustAwait"
    /\ \E o \in GeminiOutcomes(AdjustedText) :
         IF o.throws
         THEN /\ Respond(ErrorResponse(ErrorThrown, 500))
              /\ UNCHANGED << promptToSend, submitted >>
         ELSE IF ~o.ok
         THEN /\ Respond(ErrorResponse(ErrorAdjustFailed, 500))
              /\ UNCHANGED << promptToSend, submitted >>
         ELSE IF ~Truthy(AdjustedPrompt(o.data))
         THEN /\ Respond(ErrorResponse(ErrorNoAdjusted, 500))
              /\ UNCHANGED << promptToSend, submitted >>
         ELSE /\ SubmitCompose(AdjustedPrompt(o.data))
              /\ UNCHANGED response
    /\ UNCHANGED client
    /\ UNCHANGED << body, env, path, validBoards, limitedBoards, inflight, perBoardResults,
                    combinedPrompt, refinedPrompt, taskId, attempts, finalMeta,
                    taskStatus, geminiCalls, polls, transients, lastPoll,
                    abortedAt, polledAfterAbort >>

\* fresh branch, if (!boards.length)
EnterFreshNoBoards ==
    /\ pc = "start"
    /\ KeysSet
    /\ ~TakesRetry
    /\ ~TakesAdjust
    /\ Len(boards) = 0
    /\ path' = "fresh"
    /\ Respond(ErrorResponse(ErrorNoBoards, 400))
    /\ UNCHANGED client
    /\ UNCHANGED << body, env, validBoards, limitedBoards, inflight, perBoardResults,
                    combinedPrompt, refinedPrompt, promptToSend, taskId, attempts, finalMeta,
                    taskStatus, geminiCalls, submitted, polls, transients, lastPoll,
                    abortedAt, polledAfterAbort >>

\* fresh branch, if (validBoards.length === 0)
EnterFreshNoValid ==
    /\ pc = "start"
    /\ KeysSet
    /\ ~TakesRetry
    /\ ~TakesAdjust
    /\ Len(boards) # 0
    /\ FilterBoards(boards) = <<>>
    /\ path' = "fresh"
    /\ validBoards' = FilterBoards(boards)
    /\ Respond(ErrorResponse(ErrorNoValidBoards, 400))
    /\ UNCHANGED client
    /\ UNCHANGED << body, env, limitedBoards, inflight, perBoardResults,
                    combinedPrompt, refinedPrompt, promptToSend, taskId, attempts, finalMeta,
                    taskStatus, geminiCalls, submitted, polls, transients, lastPoll,
                    abortedAt, polledAfterAbort >>

\* fresh branch: the boards are filtered and capped and Promise.all starts
\* processBoard for each of them, each running up to its fetch
EnterFresh ==
    /\ pc = "start"
    /\ KeysSet
    /\ ~TakesRetry
    /\ ~TakesAdjust
    /\ Len(boards) # 0
    /\ FilterBoards(boards) # <<>>
    /\ path' = "fresh"
    /\ validBoards' = FilterBoards(boards)
    /\ limitedBoards' = LimitBoards(validBoards')
    /\ inflight' = DOMAIN limitedBoards'
    /\ perBoardResults' = [i \in DOMAIN limitedBoards' |-> PendingResult]
    /\ geminiCalls' = [geminiCalls EXCEPT !.brief = @ + Len(limitedBoards')]
    /\ pc' = "briefsAwait"
    /\ UNCHANGED client
    /\ UNCHANGED << body, env, combinedPrompt, refinedPrompt, promptToSend, taskId, attempts,
                    finalMeta, response, taskStatus, submitted, polls, transients, lastPoll,
                    abortedAt, polledAfterAbort >>

\* variant of ResultSlot: a result is pushed when its call completes
ResultSlotByCompletion(i, results) ==
    CHOOSE k \in DOMAIN results :
        /\ results[k] = PendingResult
        /\ \A j \in 1..(k - 1) : results[j] # PendingResult

\* Promise.all: the value of the i-th promise is the i-th element
ResultSlot(i, results) == i

\* variant of AllSettled: the join waits for the first call only
AnySettled(pending, started) == pending # started

\* Promise.all resolves when every promise has resolved
AllSettled(pending, started) == pending = {}

\* the fetch of one processBoard has settled, in any order
BriefDone(i) ==
    /\ pc = "briefsAwait"
    /\ i \in inflight
    /\ \E o \in GeminiOutcomes(GoodText) :
         perBoardResults' =
             [perBoardResults EXCEPT ![ResultSlot(i, perBoardResults)] =
                 ProcessBoard(limitedBoards[i], i,
                              PerBoardDuration(Len(limitedBoards), totalDuration), o)]
    /\ inflight' = inflight \ {i}
    /\ UNCHANGED client
    /\ UNCHANGED << body, env, pc, path, validBoards, limitedBoards,
                    combinedPrompt, refinedPrompt, promptToSend, taskId, attempts, finalMeta,
                    response, taskStatus, geminiCalls, submitted, polls, transients, lastPoll,
                    abortedAt, polledAfterAbort >>

\* variant of JoinBriefs: processBoard does not catch, so Promise.all
\* rejects when a brief call failed and the outer catch answers
JoinBriefsRejecting ==
    /\ pc = "briefsAwait"
    /\ AllSettled(inflight, DOMAIN limitedBoards)
    /\ IF \E i \in DOMAIN perBoardResults : "error" \in perBoardResults[i].fields
       THEN /\ Respond(ErrorResponse(ErrorThrown, 500))
            /\ UNCHANGED << combinedPrompt, geminiCalls >>
       ELSE /\ combinedPrompt' = CombinedPrompt(perBoardResults, totalDuration)
            /\ geminiCalls' = [geminiCalls EXCEPT !.refine = @ + 1]
            /\ pc' = "refineAwait"
            /\ UNCHANGED response
    /\ UNCHANGED client
    /\ UNCHANGED << body, env, path, validBoards, limitedBoards, inflight, perBoardResults,
                    refinedPrompt, promptToSend, taskId, attempts, finalMeta,
                    taskStatus, submitted, polls, transients, lastPoll,
                    abortedAt, polledAfterAbort >>

\* Promise.all has resolved: the combined prompt is built and the refiner
\* call is issued
JoinBriefs ==
    /\ pc = "briefsAwait"
    /\ AllSettled(inflight, DOMAIN limitedBoards)
    /\ combinedPrompt' = CombinedPrompt(perBoardResults, totalDuration)
    /\ geminiCalls' = [geminiCalls EXCEPT !.refine = @ + 1]
    /\ pc' = "refineAwait"
    /\ UNCHANGED client
    /\ UNCHANGED << body, env, path, validBoards, limitedBoards, inflight, perBoardResults,
                    refinedPrompt, promptToSend, taskId, attempts, finalMeta,
                    response, taskStatus, submitted, polls, transients, lastPoll,
                    abortedAt, polledAfterAbort >>

\* the refiner call has settled: const promptToSend = refinedPrompt || combinedPrompt
RefineDone ==
    /\ pc = "refineAwait"
    /\ \E o \in RefineOutcomes :
         /\ refinedPrompt' = Refine(o)
         /\ SubmitCompose(PromptToSend(refinedPrompt', combinedPrompt))
    /\ UNCHANGED client
    /\ UNCHANGED << body, env, path, validBoards, limitedBoards, inflight, perBoardResults,
                    combinedPrompt, taskId, attempts, finalMeta, response,
                    taskStatus, geminiCalls, polls, transients, lastPoll,
                    abortedAt, polledAfterAbort >>

\* the compose submission has settled; with a task id the poll loop starts
ComposeDone ==
    /\ pc = "composeAwait"
    /\ \E o \in ComposeOutcomes :
         IF o.throws
         THEN /\ Respond(ErrorResponse(ErrorThrown, 500))
              /\ UNCHANGED << taskId, attempts, taskStatus, polls, polledAfterAbort >>
         ELSE /\ taskId' = o.json.task_id
              /\ IF ~TruthyStr(taskId')
                 THEN /\ Respond(NoTaskIdResponse(path, perBoardResults, o.json))
                      /\ UNCHANGED << attempts, taskStatus, polls, polledAfterAbort >>
                 ELSE LoopTest(0, "Pending", o.json.task_id)
    /\ UNCHANGED client
    /\ UNCHANGED << body, env, path, validBoards, limitedBoards, inflight, perBoardResults,
                    combinedPrompt, refinedPrompt, promptToSend, finalMeta,
                    geminiCalls, submitted, transients, lastPoll, abortedAt >>

\* if (status === 'composed')
IsComposed(o) == ~o.throws /\ o.ok /\ o.json.status = "composed"
\* variant of IsFailed: the status is read without the stRes.ok test
IsFailedAnyHttp(o) == ~o.throws /\ o.json.status \in {"failed", "error"}

\* if (status === 'failed' || status === 'error')
IsFailed(o) == ~o.throws /\ o.ok /\ o.json.status \in {"failed", "error"}

\* variant of PollComposed: the break is missing, the loop goes on
PollComposedNoBreak(o) ==
    /\ finalMeta' = <<MetaOrSelf(o.json)>>
    /\ taskStatus' = "Composed"
    /\ pc' = "sleeping"
    /\ UNCHANGED << response, transients >>

\* { finalMeta = stJson?.meta || stJson; break; } and the code after the loop
PollComposed(o) ==
    /\ finalMeta' = <<MetaOrSelf(o.json)>>
    /\ AfterLoop(finalMeta', "Composed", taskId)
    /\ UNCHANGED transients

\* return NextResponse.json({ ..., beatoven: stJson, error }, { status: 500 })
PollFailed(o) ==
    /\ taskStatus' = "Failed"
    /\ Respond(FailedResponse(path, perBoardResults, o.json))
    /\ UNCHANGED << finalMeta, transients >>

\* variant of PollTransient: the status is fetched again at once, the
\* attempt is not counted
PollTransientUncounted(o) ==
    /\ pc' = "pollAwait"
    /\ UNCHANGED << finalMeta, response, taskStatus, transients >>

\* nothing to act on, or catch {}: await new Promise(r => setTimeout(r, 2000))
PollTransient(o) ==
    /\ transients' = transients + 1
    /\ pc' = "sleeping"
    /\ UNCHANGED << finalMeta, response, taskStatus >>

\* a status poll has settled with one of outcomes: break, return, or sleep
\* for the interval
PollSettles(outcomes) ==
    /\ pc = "pollAwait"
    /\ \E o \in outcomes :
         /\ lastPoll' = o
         /\ IF IsComposed(o) THEN PollComposed(o)
            ELSE IF IsFailed(o) THEN PollFailed(o)
            ELSE PollTransient(o)
    /\ UNCHANGED client
    /\ UNCHANGED << body, env, path, validBoards, limitedBoards, inflight, perBoardResults,
                    combinedPrompt, refinedPrompt, promptToSend, taskId, attempts,
                    geminiCalls, submitted, polls, abortedAt, polledAfterAbort >>

PollDone == PollSettles(PollOutcomes)

\* the 2 s timer has fired: next iteration; stRes and stJson of the last
\* iteration are out of scope
SleepDone ==
    /\ pc = "sleeping"
    /\ lastPoll' = NoPoll
    /\ UNCHANGED client
    /\ UNCHANGED << body, env, path, validBoards, limitedBoards, inflight, perBoardResults,
                    combinedPrompt, refinedPrompt, promptToSend, taskId, finalMeta,
                    geminiCalls, submitted, transients, abortedAt >>
    /\ LoopTest(attempts, taskStatus, taskId)

\* the caller raises its cancellation signal (AbortController.abort());
\* the handler never reads req.signal
CallerAbort ==
    /\ pc # "done"
    /\ abortedAt = "never"
    /\ abortedAt' = pc
    /\ UNCHANGED client
    /\ UNCHANGED << body, env, pc, path, validBoards, limitedBoards, inflight,
                    perBoardResults, combinedPrompt, refinedPrompt, promptToSend, taskId,
                    attempts, finalMeta, response, taskStatus, geminiCalls, submitted,
                    polls, transients, lastPoll, polledAfterAbort >>

Next ==
    \/ EnterNoKeys
    \/ EnterRetry
    \/ EnterAdjust
    \/ AdjustDone
    \/ EnterFreshNoBoards
    \/ EnterFreshNoValid
    \/ EnterFresh
    \/ \E i \in 1..MaxLimitedBoards : BriefDone(i)
    \/ JoinBriefs
    \/ RefineDone
    \/ ComposeDone
    \/ PollDone
    \/ SleepDone

Spec == Init /\ [][Next]_vars

\* the whole handler for the plain requests of drawn boards and for every
\* combination of the mode fields; every call and every timer the handler
\* waits for settles
InitTerm ==
    /\ body \in { b \in Bodies(BoardLists({ StrokesKind, SparseKind }, MaxTermBoards)) :
                     IsPlainBody(b) } \cup ModeBodies
    /\ env \in Envs
    /\ InitHandler

SpecTermLive == InitTerm /\ [][Next]_vars /\ WF_vars(Next)

\* the runs whose caller may raise its cancellation signal at any time
InitCancel ==
    /\ body \in { b \in FreshBodies \cup ModeBodies : Len(b.boards) <= 1 }
    /\ env \in Envs
    /\ InitHandler

NextCancel ==
    \/ Next
    \/ CallerAbort

SpecCancel == InitCancel /\ [][NextCancel]_vars

\* ------------------------------------------- the brief and refine stages
\* the name of the board at each position of a request of InitBriefs
BoardNames == <<"n1", "n2", "n3", "n4", "n5", "n6", "n7">>

\* plain requests of named boards, each a drawing of 5 strokes or nearly empty
BriefBoardLists(maxLen) ==
    UNION { { [i \in 1..n |-> Board(i, BoardNames[i], k[i].imageLen, k[i].strokeCount)] :
              k \in [1..n -> { StrokesKind, SparseKind }] } : n \in 0..maxLen }

InitBriefs ==
    /\ body \in { b \in Bodies(BriefBoardLists(MaxBriefBoards)) : IsPlainBody(b) }
    /\ env \in { e \in Envs : e.geminiKey /\ e.beatovenKey }
    /\ InitHandler

\* the handler up to the compose submission
NextBriefs ==
    \/ EnterFreshNoBoards
    \/ EnterFreshNoValid
    \/ EnterFresh
    \/ \E i \in 1..MaxLimitedBoards : BriefDone(i)
    \/ JoinBriefs
    \/ RefineDone

SpecBriefs == InitBriefs /\ [][NextBriefs]_vars

\* the same steps for the requests of a few boards
InitRefine ==
    /\ body \in { b \in Bodies(BriefBoardLists(MaxRefineBoards)) : IsPlainBody(b) }
    /\ env \in { e \in Envs : e.geminiKey /\ e.beatovenKey }
    /\ InitHandler

SpecRefine == InitRefine /\ [][NextBriefs]_vars

\* every call to the vision-language service settles
SpecRefineLive == SpecRefine /\ WF_vars(NextBriefs)

\* ----------------------------------------------------- the mode routing
\* every combination of the mode fields, with boards that are a drawing of
\* 5 strokes or nearly empty
ModeRequests ==
    [ boards : BoardLists({ StrokesKind, SparseKind }, MaxModeBoards),
      totalDuration : { NoNum },
      retryMode : BOOLEAN,
      adjustMode : BOOLEAN,
      beatovenPrompt : { Undef, <<>>, StoredPrompt },
      adjustInstructions : { Undef, <<>>, <<" ">>, <<"faster">> } ]

InitModes ==
    /\ body \in ModeRequests
    /\ env \in Envs
    /\ InitHandler

\* the handler up to the end of the first iteration of the poll loop
NextModes ==
    \/ EnterNoKeys
    \/ EnterRetry
    \/ EnterAdjust
    \/ AdjustDone
    \/ EnterFreshNoBoards
    \/ EnterFreshNoValid
    \/ EnterFresh
    \/ \E i \in 1..MaxLimitedBoards : BriefDone(i)
    \/ JoinBriefs
    \/ RefineDone
    \/ ComposeDone
    \/ PollDone

SpecModes == InitModes /\ [][NextModes]_vars

\* ------------------------------------------------ the per-board duration
\* plain requests with and without a totalDuration
DurationRequests ==
    [ boards : BoardLists({ StrokesKind, SparseKind }, MaxDurationBoards),
      totalDuration : { NoNum, 30, 120 },
      retryMode : { FALSE },
      adjustMode : { FALSE },
      beatovenPrompt : { Undef },
      adjustInstructions : { Undef } ]

InitDuration ==
    /\ body \in DurationRequests
    /\ env \in { e \in Envs : e.geminiKey /\ e.beatovenKey }
    /\ InitHandler

\* the handler up to the end of the brief calls
NextDuration ==
    \/ EnterFreshNoBoards
    \/ EnterFreshNoValid
    \/ EnterFresh
    \/ \E i \in 1..MaxLimitedBoards : BriefDone(i)

SpecDuration == InitDuration /\ [][NextDuration]_vars

\* --------------------------------------------- the eligibility filter alone
\* every board shape around the two thresholds
InitEligibility ==
    /\ LET FilterKinds ==
               [ name : { Null },
                 imageLen : { NoNum, 0, MinImageLength, MinImageLength + 1 },
                 strokeCount : { NoNum, 0, MinStrokeCount - 1, MinStrokeCount } ]
       IN  body \in { b \in Bodies(BoardLists(FilterKinds, MaxFilterBoards)) :
                        IsPlainBody(b) }
    /\ env \in { e \in Envs : e.geminiKey /\ e.beatovenKey }
    /\ InitHandler

\* the handler up to the start of the brief calls
NextEligibility ==
    \/ EnterFreshNoBoards
    \/ EnterFreshNoValid
    \/ EnterFresh

SpecEligibility == InitEligibility /\ [][NextEligibility]_vars

\* ------------------------------------------------- the track reference
\* status polls that return a composed payload. Each candidate field is
\* null or absent, empty, or a reference; the candidates are at top level
\* without meta, or in meta with or without references at top level
ComposedPollOutcomes ==
    LET CandidateValues(u) == { Null, "", u }
        TrackFieldSets ==
            { TrackFields(tu, tU, tr) :
                tu \in CandidateValues("u-track_url"), tU \in CandidateValues("u-trackUrl"),
                tr \in { <<>> } \cup { TrackObj(d, u) : d \in CandidateValues("u-downloadUrl"),
                                                        u \in CandidateValues("u-url") } }
        ComposedPayloads ==
            { StatusJson("composed", <<>>, f) : f \in TrackFieldSets }
            \cup { StatusJson("composed", <<f>>, top) :
                     f \in TrackFieldSets,
                     top \in { NoTrackFields,
                               TrackFields("top-track_url", "top-trackUrl", <<>>) } }
    IN  { [throws |-> FALSE, ok |-> TRUE, json |-> j] : j \in ComposedPayloads }

\* a status poll has settled with a composed payload
PollDoneComposed == PollSettles(ComposedPollOutcomes)

NextTrack ==
    \/ EnterRetry
    \/ ComposeDone
    \/ PollDoneComposed

\* a retry run whose first status poll returns composed
InitTrack ==
    /\ body = [boards |-> <<>>, totalDuration |-> NoNum, retryMode |-> TRUE,
               adjustMode |-> FALSE, beatovenPrompt |-> StoredPrompt,
               adjustInstructions |-> Undef]
    /\ env = [geminiKey |-> TRUE, beatovenKey |-> TRUE]
    /\ InitHandler

SpecTrack == InitTrack /\ [][NextTrack]_vars

\* ------------------------------------------- the single-image endpoints
\* The two older endpoints share the state of a run: perBoardResults holds
\* the briefs obtained so far (geminiText of the one image, or perImage),
\* combinedPrompt the prompt of the images endpoint.
MaxImages == 2



\* the three fields the images endpoint reads its images from: <<>> when
\* the field is absent, <<array>> when it is there
ImagesBodies ==
    LET ImageLists == UNION { [1..n -> { "iVBOR" }] : n \in 0..MaxImages }
    IN  { [imagesBase64 |-> <<l>>, imageBase64List |-> <<>>, boards |-> <<>>] :
            l \in ImageLists }
        \cup { [imagesBase64 |-> <<>>, imageBase64List |-> <<l>>, boards |-> <<>>] :
                 l \in ImageLists }
        \cup { [imagesBase64 |-> <<>>, imageBase64List |-> <<>>,
                boards |-> << [i \in DOMAIN l |-> [imageBase64 |-> l[i]]] >>] :
                 l \in ImageLists }
        \cup { [imagesBase64 |-> <<>>, imageBase64List |-> <<>>, boards |-> <<>>] }

\* body?.imagesBase64 || body?.imageBase64List
\*   || (Array.isArray(body?.boards) ? body.boards.map(b => b.imageBase64) : null) || null
ImagesBase64(b) ==
    IF b.imagesBase64 # <<>> THEN b.imagesBase64[1]
    ELSE IF b.imageBase64List # <<>> THEN b.imageBase64List[1]
    ELSE IF b.boards # <<>> THEN [i \in DOMAIN b.boards[1] |-> b.boards[1][i].imageBase64]
    ELSE Undef

\* the state of a run of an endpoint whose handler is entered at entry
InitHandlerAt(entry) ==
    /\ pc = entry
    /\ path = "none"
    /\ validBoards = <<>>
    /\ limitedBoards = <<>>
    /\ inflight = {}
    /\ perBoardResults = <<>>
    /\ combinedPrompt = Undef
    /\ refinedPrompt = Undef
    /\ promptToSend = Undef
    /\ taskId = Null
    /\ attempts = 0
    /\ finalMeta = <<>>
    /\ response = BaseResponse
    /\ taskStatus = "None"
    /\ geminiCalls = [brief |-> 0, refine |-> 0, adjust |-> 0]
    /\ submitted = <<>>
    /\ polls = 0
    /\ transients = 0
    /\ lastPoll = NoPoll
    /\ abortedAt = "never"
    /\ polledAfterAbort = FALSE
    /\ InitClient

\* single-image endpoint: the credential check and the one analysis call
SingleEnter ==
    /\ pc = "singleStart"
    /\ path' = "single"
    /\ IF ~env.geminiKey
       THEN /\ Respond(ErrorResponse("GEMINI_API_KEY not set", 500))
            /\ UNCHANGED geminiCalls
       ELSE /\ geminiCalls' = [geminiCalls EXCEPT !.brief = @ + 1]
            /\ pc' = "singleBriefAwait"
            /\ UNCHANGED response
    /\ UNCHANGED client
    /\ UNCHANGED << body, env, validBoards, limitedBoards, inflight, perBoardResults,
                    combinedPrompt, refinedPrompt, promptToSend, taskId, attempts, finalMeta,
                    taskStatus, submitted, polls, transients, lastPoll,
                    abortedAt, polledAfterAbort >>

\* single-image endpoint: the analysis call has settled; its text is the
\* text of the compose submission
SingleBriefDone ==
    /\ pc = "singleBriefAwait"
    /\ \E o \in GeminiOutcomes(GoodText) :
         IF o.throws
         THEN /\ Respond(ErrorResponse(ErrorThrown, 500))
              /\ UNCHANGED << perBoardResults, promptToSend, submitted >>
         ELSE LET geminiText == Trim(extractTextFromGemini(o.data))
              IN  /\ perBoardResults' = << [brief |-> geminiText, raw |-> o.data] >>
                  /\ IF ~Truthy(geminiText)
                     THEN /\ Respond(ErrorResponse("Gemini returned empty text", 500))
                          /\ UNCHANGED << promptToSend, submitted >>
                     ELSE IF ~env.beatovenKey
                     THEN /\ Respond(ErrorResponse("BEATOVEN_API_KEY not set", 500))
                          /\ UNCHANGED << promptToSend, submitted >>
                     \* const trackPrompt = geminiText
                     ELSE /\ promptToSend' = geminiText
                          /\ submitted' = Append(submitted, promptToSend')
                          /\ pc' = "singleComposeAwait"
                          /\ UNCHANGED response
    /\ UNCHANGED client
    /\ UNCHANGED << body, env, path, validBoards, limitedBoards, inflight,
                    combinedPrompt, refinedPrompt, taskId, attempts, finalMeta,
                    taskStatus, geminiCalls, polls, transients, lastPoll,
                    abortedAt, polledAfterAbort >>

\* variant of InitialCombinedPrompt: the prompt starts empty for any count
InitialCombinedPromptEmpty(perImage) == <<>>

\* let combinedPrompt = perImage.length === 1 ? perImage[0].brief : ''
InitialCombinedPrompt(perImage) ==
    IF Len(perImage) = 1 THEN perImage[1].brief ELSE <<>>

\* perImage.map(p => p.brief).join(' | ')
RECURSIVE JoinImageBriefs(_)
JoinImageBriefs(perImage) ==
    IF perImage = <<>> THEN <<>>
    ELSE IF Len(perImage) = 1 THEN perImage[1].brief
    ELSE perImage[1].brief \o <<" ", "|", " ">> \o JoinImageBriefs(Tail(perImage))

\* the response of the images endpoint
ImagesResponse(perImage, prompt, composeJson) ==
    [BaseResponse EXCEPT !.http = 200,
        !.fields = {"perImage", "combinedPrompt", "combinedRaw", "beatoven",
                    "beatovenAudioUrl", "beatovenAudioBase64"},
        !.perBoardResults = perImage,
        !.combinedPrompt = prompt,
        !.composeJson = composeJson]

\* images endpoint, step 3: the compose submission when the key is set,
\* the response at once when it is not
SendToBeatoven(perImage, prompt) ==
    IF env.beatovenKey
    THEN /\ promptToSend' = prompt
         /\ submitted' = Append(submitted, prompt)
         /\ pc' = "imagesComposeAwait"
         /\ UNCHANGED response
    ELSE /\ Respond(ImagesResponse(perImage, prompt, NoComposeJson))
         /\ UNCHANGED << promptToSend, submitted >>

\* images endpoint: the checks and the analysis call of the first image
ImagesEnter ==
    /\ pc = "imagesStart"
    /\ path' = "images"
    /\ IF ~env.geminiKey
       THEN /\ Respond(ErrorResponse("GEMINI_API_KEY not set", 500))
            /\ UNCHANGED geminiCalls
       ELSE IF ImagesBase64(body) = Undef \/ Len(ImagesBase64(body)) = 0
       THEN /\ Respond(ErrorResponse("No images provided", 400))
            /\ UNCHANGED geminiCalls
       ELSE /\ geminiCalls' = [geminiCalls EXCEPT !.brief = @ + 1]
            /\ pc' = "imagesBriefAwait"
            /\ UNCHANGED response
    /\ UNCHANGED client
    /\ UNCHANGED << body, env, validBoards, limitedBoards, inflight, perBoardResults,
                    combinedPrompt, refinedPrompt, promptToSend, taskId, attempts, finalMeta,
                    taskStatus, submitted, polls, transients, lastPoll,
                    abortedAt, polledAfterAbort >>

\* images endpoint: the analysis call of one image has settled; the next
\* image is analyzed or, after the last, the briefs are combined: one brief
\* is the prompt as it is, several are sent to the combining call
ImagesBriefDone ==
    /\ pc = "imagesBriefAwait"
    /\ \E o \in GeminiOutcomes(GoodText) :
         IF o.throws
         THEN /\ Respond(ErrorResponse(ErrorThrown, 500))
              /\ UNCHANGED << perBoardResults, combinedPrompt, promptToSend, submitted,
                              geminiCalls >>
         \* text = ...parts?.[0]?.text || ...content?.text || JSON.stringify(geminiData),
         \* the chain of extractTextFromGemini written out in the loop;
         \* perImage.push({ brief: String(text).trim(), raw: geminiData })
         ELSE /\ perBoardResults' =
                    Append(perBoardResults, [brief |-> Trim(extractTextFromGemini(o.data)),
                                             raw |-> o.data])
              /\ IF Len(perBoardResults') < Len(ImagesBase64(body))
                 THEN /\ geminiCalls' = [geminiCalls EXCEPT !.brief = @ + 1]
                      /\ pc' = "imagesBriefAwait"
                      /\ UNCHANGED << combinedPrompt, promptToSend, submitted, response >>
                 ELSE /\ combinedPrompt' = InitialCombinedPrompt(perBoardResults')
                      /\ IF Len(perBoardResults') > 1
                         THEN /\ geminiCalls' = [geminiCalls EXCEPT !.refine = @ + 1]
                              /\ pc' = "imagesCombineAwait"
                              /\ UNCHANGED << promptToSend, submitted, response >>
                         ELSE /\ SendToBeatoven(perBoardResults', combinedPrompt')
                              /\ UNCHANGED geminiCalls
    /\ UNCHANGED client
    /\ UNCHANGED << body, env, path, validBoards, limitedBoards, inflight,
                    refinedPrompt, taskId, attempts, finalMeta,
                    taskStatus, polls, transients, lastPoll,
                    abortedAt, polledAfterAbort >>

\* images endpoint: the combining call has settled; catch { simple join }
ImagesCombineDone ==
    /\ pc = "imagesCombineAwait"
    /\ \E o \in GeminiOutcomes(GoodText) :
         /\ combinedPrompt' = IF o.throws THEN JoinImageBriefs(perBoardResults)
                              ELSE Trim(extractTextFromGemini(o.data))
         /\ SendToBeatoven(perBoardResults, combinedPrompt')
    /\ UNCHANGED client
    /\ UNCHANGED << body, env, path, validBoards, limitedBoards, inflight, perBoardResults,
                    refinedPrompt, taskId, attempts, finalMeta,
                    taskStatus, geminiCalls, polls, transients, lastPoll,
                    abortedAt, polledAfterAbort >>

\* images endpoint: the compose submission has settled, the response is sent
ImagesComposeDone ==
    /\ pc = "imagesComposeAwait"
    /\ \E o \in ComposeOutcomes :
         Respond(ImagesResponse(perBoardResults, combinedPrompt, o.json))
    /\ UNCHANGED client
    /\ UNCHANGED << body, env, path, validBoards, limitedBoards, inflight, perBoardResults,
                    combinedPrompt, refinedPrompt, promptToSend, taskId, attempts, finalMeta,
                    taskStatus, geminiCalls, submitted, polls, transients, lastPoll,
                    abortedAt, polledAfterAbort >>

\* a run of one of the three endpoints: the multi-board handler up to its
\* compose submission, the single-image endpoint up to its compose
\* submission, the images endpoint
NextEndpoints ==
    \/ NextBriefs
    \/ SingleEnter
    \/ SingleBriefDone
    \/ ImagesEnter
    \/ ImagesBriefDone
    \/ ImagesCombineDone
    \/ ImagesComposeDone

InitEndpoints ==
    \/ InitRefine
    \/ /\ body = [imageBase64 |-> "iVBOR"]
       /\ env \in Envs
       /\ InitHandlerAt("singleStart")
    \/ /\ body \in ImagesBodies
       /\ env \in Envs
       /\ InitHandlerAt("imagesStart")

SpecEndpoints == InitEndpoints /\ [][NextEndpoints]_vars

\* ------------------------------------------------ the Whiteboard component

\* the response bodies the handler returns to a request of branch p
ServerData(p) ==
    { ErrorResponse(ErrorNoKeys, 500), ErrorResponse(ErrorThrown, 500) }
    \cup (IF p = "fresh"
          THEN { ErrorResponse(ErrorNoBoards, 400), ErrorResponse(ErrorNoValidBoards, 400) }
          ELSE {})
    \cup (IF p = "adjust"
          THEN { ErrorResponse(ErrorAdjustFailed, 500), ErrorResponse(ErrorNoAdjusted, 500) }
          ELSE {})
    \cup { NoTaskIdResponse(p, <<>>, ComposeJson(Null, "quota exceeded")),
           FailedResponse(p, <<>>, StatusJson("failed", <<>>, NoTrackFields)),
           TimedOutResponse(p, <<>>, "t1") }
    \cup { SuccessResponse(p, <<>>, GoodText, PlainRefinedText, "t1", fm) :
             fm \in { TrackFields("u-track_url", Null, <<>>), NoTrackFields } }

\* how a fetch and its body read settle: they throw, or a body is read
ClientOutcomes(p) ==
    { [thrown |-> TRUE, data |-> BaseResponse] }
    \cup { [thrown |-> FALSE, data |-> dt] : dt \in ServerData(p) }

\* data?.trackUrl, data?.task_id, data?.error as conditions
HasTrackUrl(dt) == "trackUrl" \in dt.fields /\ TruthyStr(dt.trackUrl)
HasTaskId(dt) == "task_id" \in dt.fields /\ TruthyStr(dt.task_id)
HasError(dt) == "error" \in dt.fields /\ TruthyStr(dt.error)

\* data?.beatovenPrompt || fallback
PromptOr(dt, fallback) ==
    IF "beatovenPrompt" \in dt.fields /\ Truthy(dt.beatovenPrompt)
    THEN dt.beatovenPrompt ELSE fallback

\* analyzeDrawing up to its fetch
StartAnalyze ==
    /\ error' = Null
    /\ analyzing' = TRUE
    /\ stage' = "analyzing"
    /\ abortCtrlRef' = TRUE
    /\ signalAborted' = FALSE
    /\ request' = "analyze"
    /\ UNCHANGED << lastBeatovenPrompt, clientAdjustInstructions, received >>

\* the Generate button: disabled while analyzing
AnalyzeDrawing ==
    /\ request = "none"
    /\ ~analyzing
    /\ StartAnalyze
    /\ UNCHANGED handler

\* analyzeDrawing: if (data?.trackUrl) ... else if (data?.task_id) ...
\* else if (data?.error) ... else ...
AnalyzeBranches(dt) ==
    IF HasTrackUrl(dt)
    THEN /\ lastBeatovenPrompt' = PromptOr(dt, Undef)
         /\ stage' = "done"
         /\ UNCHANGED error
    ELSE IF HasTaskId(dt)
    THEN /\ stage' = "composing"
         /\ UNCHANGED << error, lastBeatovenPrompt >>
    ELSE IF HasError(dt)
    THEN /\ error' = dt.error
         /\ UNCHANGED << stage, lastBeatovenPrompt >>
    ELSE /\ error' = "No usable response from server"
         /\ UNCHANGED << stage, lastBeatovenPrompt >>

\* analyzeDrawing from its fetch on: the branches on the body, the catch,
\* the finally; an aborted signal makes the fetch reject with AbortError
AnalyzeSettled ==
    /\ request = "analyze"
    /\ IF signalAborted
       THEN /\ error' = "Analysis cancelled"
            /\ stage' = "cancelled"
            /\ received' = [by |-> "analyze", thrown |-> TRUE, data |-> BaseResponse]
            /\ UNCHANGED lastBeatovenPrompt
       ELSE \E o \in ClientOutcomes("fresh") :
              /\ received' = [by |-> "analyze", thrown |-> o.thrown, data |-> o.data]
              /\ IF o.thrown
                 THEN /\ error' = "Failed to analyze."
                      /\ UNCHANGED << stage, lastBeatovenPrompt >>
                 ELSE AnalyzeBranches(o.data)
    /\ analyzing' = FALSE
    /\ abortCtrlRef' = FALSE
    /\ request' = "none"
    /\ UNCHANGED << clientAdjustInstructions, signalAborted >>
    /\ UNCHANGED handler

\* the Cancel button: stops the analysis that holds a controller
CancelAnalyze ==
    /\ abortCtrlRef
    /\ signalAborted' = TRUE
    /\ analyzing' = FALSE
    /\ stage' = "cancelled"
    /\ UNCHANGED << error, abortCtrlRef, lastBeatovenPrompt, clientAdjustInstructions,
                    request, received >>
    /\ UNCHANGED handler

\* the Try Again button: a full analysis without a kept prompt, or the
\* retry request
TryAgain ==
    /\ request = "none"
    /\ ~analyzing
    /\ IF ~Truthy(lastBeatovenPrompt)
       THEN StartAnalyze
       ELSE /\ error' = Null
            /\ analyzing' = TRUE
            /\ stage' = "composing"
            /\ request' = "retry"
            /\ UNCHANGED << abortCtrlRef, lastBeatovenPrompt, clientAdjustInstructions,
                            signalAborted, received >>
    /\ UNCHANGED handler

\* tryAgain and adjustMusic: if (data?.trackUrl) ... else if (data?.error) ...
\* else ...; kept is the value of lastBeatovenPrompt after a success
ModeBranches(dt, kept) ==
    IF HasTrackUrl(dt)
    THEN /\ lastBeatovenPrompt' = kept
         /\ stage' = "done"
         /\ UNCHANGED error
    ELSE IF HasError(dt)
    THEN /\ error' = dt.error
         /\ UNCHANGED << stage, lastBeatovenPrompt >>
    ELSE /\ error' = "No usable response from server"
         /\ UNCHANGED << stage, lastBeatovenPrompt >>

\* tryAgain from its fetch on
RetrySettled ==
    /\ request = "retry"
    /\ \E o \in ClientOutcomes("retry") :
         /\ received' = [by |-> "retry", thrown |-> o.thrown, data |-> o.data]
         /\ IF o.thrown
            THEN /\ error' = "Failed to retry music generation."
                 /\ UNCHANGED << stage, lastBeatovenPrompt >>
            ELSE ModeBranches(o.data, lastBeatovenPrompt)
    /\ analyzing' = FALSE
    /\ request' = "none"
    /\ UNCHANGED << abortCtrlRef, clientAdjustInstructions, signalAborted >>
    /\ UNCHANGED handler

\* onChange of the adjustment field
TypeInstructions ==
    /\ \E t \in { <<>>, <<" ">>, <<"faster">> } :
         /\ t # clientAdjustInstructions
         /\ clientAdjustInstructions' = t
    /\ UNCHANGED << stage, analyzing, error, abortCtrlRef, lastBeatovenPrompt,
                    request, signalAborted, received >>
    /\ UNCHANGED handler

\* the Apply Changes button: disabled while analyzing or with blank text
AdjustMusic ==
    /\ request = "none"
    /\ ~analyzing
    /\ Truthy(Trim(clientAdjustInstructions))
    /\ IF ~Truthy(lastBeatovenPrompt)
       THEN /\ error' = "Please provide adjustment instructions"
            /\ received' = [by |-> "adjust", thrown |-> FALSE, data |-> BaseResponse]
            /\ UNCHANGED << stage, analyzing, request >>
       ELSE /\ error' = Null
            /\ analyzing' = TRUE
            /\ stage' = "composing"
            /\ request' = "adjust"
            /\ UNCHANGED received
    /\ UNCHANGED << abortCtrlRef, lastBeatovenPrompt, clientAdjustInstructions,
                    signalAborted >>
    /\ UNCHANGED handler

\* adjustMusic from its fetch on
AdjustSettled ==
    /\ request = "adjust"
    /\ \E o \in ClientOutcomes("adjust") :
         /\ received' = [by |-> "adjust", thrown |-> o.thrown, data |-> o.data]
         /\ IF o.thrown
            THEN /\ error' = "Failed to adjust music generation."
                 /\ UNCHANGED << stage, lastBeatovenPrompt >>
            ELSE ModeBranches(o.data, PromptOr(o.data, lastBeatovenPrompt))
    /\ analyzing' = FALSE
    /\ clientAdjustInstructions' = <<>>
    /\ request' = "none"
    /\ UNCHANGED << abortCtrlRef, signalAborted >>
    /\ UNCHANGED handler

NextWhiteboard ==
    \/ AnalyzeDrawing
    \/ AnalyzeSettled
    \/ CancelAnalyze
    \/ TryAgain
    \/ RetrySettled
    \/ TypeInstructions
    \/ AdjustMusic
    \/ AdjustSettled

\* the component alone: the handler is what answers its requests
InitWhiteboard ==
    /\ body = [boards |-> <<>>, totalDuration |-> DefaultTotalDuration, retryMode |-> FALSE,
               adjustMode |-> FALSE, beatovenPrompt |-> Undef,
               adjustInstructions |-> Undef]
    /\ env = [geminiKey |-> TRUE, beatovenKey |-> TRUE]
    /\ InitHandler

SpecWhiteboard == InitWhiteboard /\ [][NextWhiteboard]_vars

\* =================================================================== claims
TerminalStatuses == { "Composed", "Failed", "TimedOut" }

\* the three ways a run that has a task can end, read off the response
SaysComposed(r) == r.http = 200 /\ "trackUrl" \in r.fields
SaysFailed(r) == r.http = 500 /\ r.error = "Beatoven composition failed"
SaysTimedOut(r) == r.http = 500 /\ "status" \in r.fields /\ r.status = "timed_out"

\* C1: in every run, whatever the branch, the task leaves Pending at most
\* once and only to Composed, Failed or TimedOut; a run that ends with a task
\* ends in exactly one of the three, which its response shows; once the task
\* is terminal no status poll is issued and the status does not change.
C1_TaskLeavesPendingOnce ==
    [][ /\ (taskStatus = "Pending" => taskStatus' \in {"Pending"} \cup TerminalStatuses)
        /\ (taskStatus \in TerminalStatuses => taskStatus' = taskStatus /\ polls' = polls)
        /\ (taskStatus' \in TerminalStatuses => pc' = "done")
        /\ (pc' = "done" /\ taskStatus' # "None" =>
              /\ taskStatus' \in TerminalStatuses
              /\ (taskStatus' = "Composed") = SaysComposed(response')
              /\ (taskStatus' = "Failed") = SaysFailed(response')
              /\ (taskStatus' = "TimedOut") = SaysTimedOut(response')) ]_vars

C1_Witness ==
    /\ pc = "done"
    /\ path = "adjust"
    /\ taskStatus = "Failed"
    /\ polls = 3

\* C2: a run issues at most 90 status polls; a run that has ended after 90
\* polls none of which returned composed, failed or error has ended as
\* TimedOut, not as Failed, also when the caller raised its signal.
C2_CeilingYieldsTimedOut ==
    /\ polls <= 90
    /\ (pc = "done" /\ transients = 90 =>
          /\ polls = 90
          /\ taskStatus = "TimedOut"
          /\ SaysTimedOut(response)
          /\ ~SaysFailed(response))

C2_Witness ==
    /\ pc = "done"
    /\ transients = 90
    /\ taskStatus = "TimedOut"
    /\ abortedAt = "sleeping"

\* the outcomes of one poll that C3 is about
TransientOutcome(o) ==
    \/ o.throws
    \/ ~o.ok
    \/ o.json.status \notin { "composed", "failed", "error" }

\* C3: a status poll that throws, returns a non-success HTTP status or
\* returns a status other than composed, failed or error leaves the task
\* Pending, produces no response, has used exactly one attempt, and after the
\* interval another poll is issued if fewer than 90 attempts were used.
C3_TransientPollRetried ==
    [][ /\ (pc = "pollAwait" /\ pc' # "pollAwait" /\ TransientOutcome(lastPoll') =>
              /\ pc' = "sleeping"
              /\ taskStatus' = "Pending"
              /\ response' = BaseResponse
              /\ attempts' = attempts
              /\ attempts' = polls'
              /\ polls' = polls)
        /\ (pc = "sleeping" /\ pc' # "sleeping" =>
              IF attempts < 90
              THEN pc' = "pollAwait" /\ polls' = polls + 1 /\ attempts' = attempts + 1
              ELSE pc' = "done" /\ polls' = polls) ]_vars

C3_Witness ==
    /\ pc = "pollAwait"
    /\ polls = 4
    /\ transients = 3
    /\ taskStatus = "Pending"

\* C4: when a status poll returns failed or error, on the first poll or
\* later, the run has ended with the composition-failure response: HTTP 500,
\* the failure error, the raw status payload of that poll, no track reference.
C4_FailedCarriesPayload ==
    (~lastPoll.throws /\ lastPoll.ok /\ lastPoll.json.status \in { "failed", "error" }) =>
        /\ pc = "done"
        /\ polls = transients + 1
        /\ response.http = 500
        /\ response.error = "Beatoven composition failed"
        /\ "beatoven" \in response.fields
        /\ response.beatoven = lastPoll.json
        /\ "trackUrl" \notin response.fields

C4_Witness ==
    /\ pc = "done"
    /\ polls = 1
    /\ lastPoll.ok
    /\ lastPoll.json.status = "error"
    /\ response.beatoven.status = "error"

\* a response that says the run was cancelled: an error that is neither the
\* timeout nor one of the generic failures
SaysCancelled(r) ==
    /\ "error" \in r.fields
    /\ ~SaysTimedOut(r)
    /\ r.error \notin { ErrorFailed, ErrorTimedOut, ErrorThrown, ErrorNoTaskId }

\* C5: a cancellation signal raised by the caller while the run is polling
\* makes the run end with a cancelled outcome, and no status poll is issued
\* after the cancellation.
C5_CancelStopsPolling ==
    abortedAt \in { "pollAwait", "sleeping" } =>
        /\ ~polledAfterAbort
        /\ (pc = "done" => SaysCancelled(response))

\* the track reference of a composed payload as the claims describe it: the
\* candidates in order, read from meta, or from the payload without meta
TrackSource(j) == IF j.meta # <<>> THEN j.meta[1] ELSE j.top
TrackCandidates(m) ==
    << m.track_url, m.trackUrl,
       IF m.track = <<>> THEN Null ELSE m.track[1].downloadUrl,
       IF m.track = <<>> THEN Null ELSE m.track[1].url >>
FirstNonNull(c) ==
    IF \A i \in DOMAIN c : c[i] = Null THEN Null
    ELSE c[CHOOSE i \in DOMAIN c : c[i] # Null /\ \A k \in 1..(i - 1) : c[k] = Null]

\* C6: a run whose k-th poll is the first to return composed, the k-1
\* before it being non-terminal, has issued exactly k polls and has returned
\* the success response with the task id the compose service returned and
\* the track reference of that composed payload.
C6_ComposedAfterKPolls ==
    (pc = "done" /\ ~lastPoll.throws /\ lastPoll.ok /\ lastPoll.json.status = "composed") =>
        /\ polls = transients + 1
        /\ attempts = polls
        /\ response.http = 200
        /\ "error" \notin response.fields
        /\ { "task_id", "trackUrl" } \subseteq response.fields
        /\ response.task_id = taskId
        /\ taskId \in TaskIds
        /\ response.trackUrl = FirstNonNull(TrackCandidates(TrackSource(lastPoll.json)))

C6_Witness ==
    /\ pc = "done"
    /\ polls = 3
    /\ transients = 2
    /\ response.http = 200
    /\ response.task_id = "t1"
    /\ response.trackUrl = "u-track_url"

\* C7: every success response carries a string task_id and a string trackUrl
\* (never null).
C7_SuccessHasTrack ==
    (pc = "done" /\ response.http = 200) =>
        /\ { "task_id", "trackUrl" } \subseteq response.fields
        /\ response.task_id \in TaskIds
        /\ response.trackUrl # Null

\* the fields of a response that identify its outcome
OutcomeId(r) == << r.error, IF "status" \in r.fields THEN r.status ELSE Absent >>

\* C8: the response of a run that exceeded the poll ceiling is identified by
\* the timeout error and status timed_out, and no response of a run whose
\* task failed has that identification.
C8_TimeoutDistinctFromFailure ==
    pc = "done" =>
        /\ (taskStatus = "TimedOut" =>
              OutcomeId(response) = << "Beatoven compose timed out", "timed_out" >>)
        /\ (taskStatus = "Failed" =>
              /\ OutcomeId(response)[1] # "Beatoven compose timed out"
              /\ OutcomeId(response)[2] # "timed_out")

C8_Witness ==
    /\ pc = "done"
    /\ taskStatus = "TimedOut"
    /\ path = "fresh"
    /\ response.task_id = "t2"

\* eligibility as the claims state it
Eligible(b) ==
    \/ (b.imageLen # NoNum /\ b.imageLen > 100)
    \/ (IF b.strokeCount = NoNum THEN 0 ELSE b.strokeCount) >= 5
\* a request that takes neither the retry nor the adjust branch
FreshRequest ==
    /\ ~(body.retryMode /\ Truthy(body.beatovenPrompt))
    /\ ~(body.adjustMode /\ Truthy(body.beatovenPrompt) /\ Truthy(body.adjustInstructions))
NoEligibleBoard == \A i \in DOMAIN body.boards : ~Eligible(body.boards[i])
NoExternalCall ==
    /\ geminiCalls = [brief |-> 0, refine |-> 0, adjust |-> 0]
    /\ submitted = <<>>
    /\ polls = 0

\* C9 as stated: a fresh request with no eligible board (or no board) ends
\* with HTTP 400 and no call to either service.
C9_NoEligibleGives400 ==
    (pc = "done" /\ FreshRequest /\ NoEligibleBoard) =>
        /\ response.http = 400
        /\ NoExternalCall

\* C9 amended: such a request ends with an error response and no call to
\* either service; the response is the validation error (HTTP 400) when both
\* credentials are configured and the credentials error (HTTP 500) otherwise.
C9_NoEligibleNoCall ==
    (pc = "done" /\ FreshRequest /\ NoEligibleBoard) =>
        /\ "error" \in response.fields
        /\ NoExternalCall
        /\ IF env.geminiKey /\ env.beatovenKey
           THEN /\ response.http = 400
                /\ response.error \in { "No boards provided", "No valid boards to analyze" }
           ELSE /\ response.http = 500
                /\ response.error = "API keys not set"

C9_Witness ==
    /\ pc = "done"
    /\ FreshRequest
    /\ Len(body.boards) = 1
    /\ NoEligibleBoard
    /\ response.http = 400
    /\ response.error = "No valid boards to analyze"

\* the i-th smallest element of a set of indices
NthOf(S, i) == CHOOSE j \in S : Cardinality({ k \in S : k < j }) = i - 1
EligibleIdx(bs) == { j \in DOMAIN bs : Eligible(bs[j]) }

\* C10: the valid boards are exactly the boards that are eligible (image
\* longer than 100 characters, or at least 5 strokes with a missing count
\* taken as 0), in the order of the request.
C10_ValidBoardsAreEligibleInOrder ==
    path = "fresh" =>
        /\ Len(validBoards) = Cardinality(EligibleIdx(boards))
        /\ \A i \in DOMAIN validBoards :
             validBoards[i] = boards[NthOf(EligibleIdx(boards), i)]

C10_Witness ==
    /\ path = "fresh"
    /\ Len(boards) = 2
    /\ boards[1].imageLen = 100
    /\ boards[1].strokeCount = 4
    /\ boards[2].imageLen = NoNum
    /\ boards[2].strokeCount = 5
    /\ validBoards = << boards[2] >>

\* ------------------------------------------------- brief stage claims
\* the tokens of a text
Tokens(t) == { t[i] : i \in DOMAIN t }
\* the i-th eligible board of the request, in input order
Analyzed(i) == boards[NthOf(EligibleIdx(boards), i)]
\* the eligible boards after the fourth
LaterBoards ==
    { boards[j] : j \in { k \in EligibleIdx(boards) :
                            Cardinality({ m \in EligibleIdx(boards) : m < k }) >= 4 } }
\* the brief calls have been started
BriefsStarted == geminiCalls.brief > 0
\* the brief calls have all settled and the results are joined
BriefsJoined == path = "fresh" /\ pc \notin { "start", "briefsAwait" } /\ BriefsStarted
Settled(i) == perBoardResults[i] # PendingResult
\* a text names a board when it holds the board's id or its name
NamesBoard(t, b) == t # Undef /\ { b.id, b.name } \cap Tokens(t) # {}

\* C11: with more than 4 eligible boards exactly the first 4 eligible boards,
\* in input order, are analyzed: at most 4 brief calls are issued in a run,
\* and no later board is in the per-board results, in the refiner context,
\* in the fallback prompt or in the prompt submitted.
C11_FirstFourAnalyzed ==
    /\ geminiCalls.brief <= 4
    /\ (BriefsStarted /\ Cardinality(EligibleIdx(boards)) > 4) =>
        /\ geminiCalls.brief = 4
        /\ Len(limitedBoards) = 4
        /\ \A i \in 1..4 : limitedBoards[i] = Analyzed(i)
        /\ Len(perBoardResults) = 4
        /\ \A i \in 1..4 : Settled(i) => perBoardResults[i].id = Analyzed(i).id
        /\ \A b \in LaterBoards :
             /\ \A i \in 1..4 : perBoardResults[i].id # b.id /\ perBoardResults[i].name # b.name
             /\ ~NamesBoard(combinedPrompt, b)
             /\ \A k \in DOMAIN submitted : ~NamesBoard(submitted[k], b)
             /\ BriefsJoined =>
                  \A k \in DOMAIN RefinerContents(perBoardResults) :
                      ~NamesBoard(RefinerContents(perBoardResults)[k], b)

C11_Witness ==
    /\ pc = "composeAwait"
    /\ Len(boards) = 5
    /\ Cardinality(EligibleIdx(boards)) = 5
    /\ geminiCalls.brief = 4
    /\ submitted = << combinedPrompt >>
    /\ "n4" \in Tokens(combinedPrompt)
    /\ \A i \in 1..4 : perBoardResults[i].id = boards[i].id

\* the duration-map lookup as the claims state it
MapDuration(n) == CASE n = 1 -> 60 [] n = 2 -> 30 [] n = 3 -> 20 [] n = 4 -> 15

\* C12 as stated: for N analyzed boards (1 <= N <= 4) every Brief of the
\* per-board results, succeeded or failed, has the segment duration of the
\* duration map for N, and every reported per-board duration has that value.
C12_EveryBriefHasMapDuration ==
    BriefsStarted =>
        /\ \A i \in DOMAIN perBoardResults :
             Settled(i) => perBoardResults[i].segment_duration = MapDuration(Len(limitedBoards))
        /\ "perBoardDurations" \in response.fields =>
             /\ Len(response.perBoardDurations) = Len(limitedBoards)
             /\ \A i \in DOMAIN response.perBoardDurations :
                  response.perBoardDurations[i].duration = MapDuration(Len(limitedBoards))

\* the text of a vision-language response, Undef when it has none
ResponseText(d) ==
    IF d.candidates /\ d.text1 # Undef THEN d.text1
    ELSE IF d.output /\ d.text2 # Undef THEN d.text2
    ELSE Undef
\* a well-formed response whose text is empty
HasEmptyText(d) == ResponseText(d) = <<>>
\* a well-formed response whose text is not blank
HasText(d) == ResponseText(d) # Undef /\ Trim(ResponseText(d)) # <<>>

\* C13 as stated: the brief stage gives exactly one Brief per analyzed board;
\* a call that fails (non-success response, malformed payload, empty text)
\* gives a Brief with an error and no text, so a Brief with a text comes from
\* a response with a text; the stage returns no response of its own and a
\* settled call never stops the calls still in flight from settling.
C13_OneBriefPerBoard ==
    BriefsStarted =>
        /\ Len(perBoardResults) = Len(limitedBoards)
        /\ BriefsJoined => \A i \in DOMAIN perBoardResults : Settled(i)
        /\ pc = "briefsAwait" => response = BaseResponse
        /\ pc = "briefsAwait" => \A i \in inflight : ENABLED BriefDone(i)
        /\ \A i \in DOMAIN perBoardResults :
             Settled(i) =>
                IF perBoardResults[i].error # Absent
                THEN perBoardResults[i].brief = Undef
                ELSE /\ Truthy(perBoardResults[i].brief)
                     /\ HasText(perBoardResults[i].raw)

\* the board names a text holds, in the order they occur
NamesIn(t) == SelectSeq(t, LAMBDA x : \E j \in DOMAIN BoardNames : x = BoardNames[j])
\* the board ids a text holds, in the order they occur
IdsIn(t) == SelectSeq(t, LAMBDA x : \E j \in DOMAIN BoardIds : x = BoardIds[j])
\* the segment numbers 1..n as the prompts print them
SegmentNumbers(n) == [i \in 1..n |-> ToString(i)]
RECURSIVE Flatten(_)
Flatten(parts) == IF parts = <<>> THEN <<>> ELSE Head(parts) \o Flatten(Tail(parts))

\* C14: whatever the order in which the concurrent brief calls complete, the
\* i-th Brief of the per-board results belongs to the i-th analyzed board, and
\* the segments of the fallback prompt and of the refiner context are those
\* of the analyzed boards in input order.
C14_BriefOrderIsInputOrder ==
    BriefsStarted =>
        /\ \A i \in DOMAIN perBoardResults :
             Settled(i) => /\ perBoardResults[i].id = limitedBoards[i].id
                           /\ perBoardResults[i].name = limitedBoards[i].name
        /\ combinedPrompt # Undef =>
             NamesIn(combinedPrompt) = [i \in DOMAIN limitedBoards |-> limitedBoards[i].name]
        /\ BriefsJoined =>
             /\ Len(RefinerContents(perBoardResults)) = Len(limitedBoards) + 1
             /\ \A i \in DOMAIN limitedBoards :
                  /\ IdsIn(RefinerContents(perBoardResults)[i + 1]) = << limitedBoards[i].id >>
                  /\ RefinerContents(perBoardResults)[i + 1][2] = ToString(i)
             /\ IdsIn(Flatten(RefinerContents(perBoardResults)))
                  = [i \in DOMAIN limitedBoards |-> limitedBoards[i].id]

\* the call of the third board has completed, those of the first two have not
C14_Witness ==
    /\ pc = "briefsAwait"
    /\ Len(limitedBoards) = 3
    /\ inflight = { 1, 2 }
    /\ perBoardResults[3].id = limitedBoards[3].id
    /\ perBoardResults[3].id = "b4"

\* C15: the brief calls of a fresh run are all started before any of them is
\* awaited, at most 4 of them are in flight, and the refinement call is
\* issued only when every brief call has completed, successfully or not.
C15_FanOutThenJoin ==
    /\ Cardinality(inflight) <= 4
    /\ geminiCalls.refine <= 1
    /\ BriefsStarted =>
        /\ geminiCalls.brief = Len(limitedBoards)
        /\ inflight = { i \in DOMAIN perBoardResults : ~Settled(i) }
        /\ DOMAIN perBoardResults = DOMAIN limitedBoards
    /\ pc = "briefsAwait" => geminiCalls.refine = 0
    /\ geminiCalls.refine > 0 =>
        /\ BriefsStarted
        /\ inflight = {}
        /\ \A i \in DOMAIN perBoardResults : Settled(i)

C15_Witness ==
    /\ pc = "refineAwait"
    /\ geminiCalls.refine = 1
    /\ geminiCalls.brief = 4
    /\ perBoardResults[1].error # Absent
    /\ perBoardResults[4].error = Absent

\* C16 as stated: a well-formed response with an empty text part is a failure
\* of the board's brief: no Brief with a text comes from such a response, and
\* no text made from the response is the brief.
C16_EmptyTextIsFailure ==
    \A i \in DOMAIN perBoardResults :
        (Settled(i) /\ perBoardResults[i].error = Absent) =>
            /\ ~HasEmptyText(perBoardResults[i].raw)
            /\ perBoardResults[i].brief # Stringify(perBoardResults[i].raw)

\* ------------------------------------------------ refine stage claims
\* the refinement call failed: it threw, had a non-success status or a
\* payload of neither shape
RefineFailed(o) == o.throws \/ ~o.ok \/ (~o.data.candidates /\ ~o.data.output)
\* the refinement call returned an empty or blank text
RefineEmpty(o) == ~RefineFailed(o) /\ ~HasText(o.data)
\* the refinement call succeeded with a text that is not blank
RefineSucceeded(o) == ~RefineFailed(o) /\ HasText(o.data)
\* the step in which the refinement call settles
RefineStep == pc = "refineAwait" /\ pc' # "refineAwait"
\* o is an outcome of the refinement call that gives this step
Explains(o) == refinedPrompt' = Refine(o)

\* C17 as stated: when the refinement call fails or returns empty text the
\* prompt submitted is the fallback prompt built from the briefs, and no text
\* of the refinement response is submitted.
C17_FailedRefinementFallsBack ==
    [][ RefineStep =>
          \A o \in RefineOutcomes :
              (Explains(o) /\ (RefineFailed(o) \/ RefineEmpty(o))) =>
                  /\ submitted' = << combinedPrompt >>
                  /\ promptToSend' = combinedPrompt ]_vars

\* the marker of the refiner's reply in the spellings the replies use
MarkerSpellings == { "REFINED_PROMPT:", "refined_prompt:" }
MarkerPositions(t) == { m \in DOMAIN t : t[m] \in MarkerSpellings }
FirstMarker(t) == CHOOSE m \in MarkerPositions(t) : \A j \in MarkerPositions(t) : m <= j
\* the reply without its head up to the first marker, when text follows it
StrippedReply(t) ==
    IF MarkerPositions(t) # {} /\ Trim(SubSeq(t, FirstMarker(t) + 1, Len(t))) # <<>>
    THEN Trim(SubSeq(t, FirstMarker(t) + 1, Len(t)))
    ELSE t

\* C18 as stated: when the refinement call succeeds with non-empty text the
\* prompt submitted is the refiner's output and is not the fallback prompt.
C18_RefinedIsRefinerOutput ==
    [][ RefineStep =>
          \A o \in RefineOutcomes :
              (Explains(o) /\ RefineSucceeded(o)) =>
                  /\ submitted' = << Trim(ResponseText(o.data)) >>
                  /\ submitted'[1] # combinedPrompt ]_vars

\* C18 amended: when the refinement call succeeds with a text that is not
\* blank, the prompt submitted is that text, trimmed, without its head up to
\* and including the first REFINED_PROMPT: marker (any letter case) when text
\* follows the marker; it is not empty and is not the fallback prompt.
C18_RefinedIsStrippedReply ==
    [][ RefineStep =>
          \A o \in RefineOutcomes :
              (Explains(o) /\ RefineSucceeded(o)) =>
                  /\ submitted' = << StrippedReply(Trim(ResponseText(o.data))) >>
                  /\ promptToSend' = submitted'[1]
                  /\ submitted'[1] # <<>>
                  /\ submitted'[1] # combinedPrompt ]_vars

\* the refiner replied in the requested format and the text after the marker
\* was submitted
C18_Witness ==
    /\ pc = "composeAwait"
    /\ path = "fresh"
    /\ refinedPrompt = <<"one", "calm", "track">>
    /\ submitted = << <<"one", "calm", "track">> >>
    /\ submitted[1] # combinedPrompt

\* C19: a fresh run that has passed validation never stops at refinement:
\* whatever the refinement call returns, the run goes on to submit exactly one
\* prompt, a text that is not empty, without returning a response.
C19_RefinementNeverDeadEnds ==
    (pc = "refineAwait") ~>
        (/\ pc = "composeAwait"
         /\ Len(submitted) = 1
         /\ submitted[1] # Undef
         /\ submitted[1] # <<>>
         /\ promptToSend = submitted[1]
         /\ combinedPrompt # Undef
         /\ response = BaseResponse)

\* the refinement call failed and the fallback prompt was submitted
C19_Witness ==
    /\ pc = "composeAwait"
    /\ path = "fresh"
    /\ refinedPrompt = Undef
    /\ submitted = << combinedPrompt >>
    /\ Len(limitedBoards) = 2
    /\ response = BaseResponse

\* --------------------------------------------------- compose stage claims
\* C20: when the compose submission response carries no task identifier the
\* run ends with a fatal error response that includes the raw submission
\* response; there is exactly one compose call in the run and no status poll,
\* and no status poll is ever issued without a task identifier.
C20_NoTaskIdIsFatal ==
    /\ Len(submitted) <= 1
    /\ polls > 0 => TruthyStr(taskId)
    /\ (pc = "done" /\ submitted # <<>> /\ polls = 0) =>
          response.error \in { "No task_id returned", "thrown error message" }
    /\ (submitted # <<>> /\ pc # "composeAwait" /\ ~TruthyStr(taskId)) =>
          /\ pc = "done"
          /\ response.http = 500
          /\ polls = 0
          /\ attempts = 0
          /\ taskStatus = "None"
          /\ "trackUrl" \notin response.fields
          /\ response.error = "No task_id returned" =>
               /\ "composeJson" \in response.fields
               /\ response.composeJson \in { o.json : o \in ComposeOutcomes }
               /\ response.composeJson.task_id = taskId

C20_Witness ==
    /\ pc = "done"
    /\ path = "retry"
    /\ response.http = 500
    /\ response.error = "No task_id returned"
    /\ "composeJson" \in response.fields
    /\ response.composeJson.detail = "quota exceeded"
    /\ Len(submitted) = 1
    /\ polls = 0

\* -------------------------------------------------------- mode claims
\* the request fields as the claims read them
HasStoredPrompt == body.beatovenPrompt # Undef /\ body.beatovenPrompt # <<>>
HasInstructions == body.adjustInstructions # Undef /\ Trim(body.adjustInstructions) # <<>>
BlankInstructions == body.adjustInstructions # Undef /\ Trim(body.adjustInstructions) = <<>>
CredentialsSet == env.geminiKey /\ env.beatovenKey
\* the mode a well-formed request asks for
RetryRequest == body.retryMode /\ ~body.adjustMode /\ HasStoredPrompt
AdjustRequest == body.adjustMode /\ ~body.retryMode /\ HasStoredPrompt /\ HasInstructions
PlainRequest == ~body.retryMode /\ ~body.adjustMode
\* the steps of each mode
DidBriefSteps == geminiCalls.brief > 0 \/ geminiCalls.refine > 0 \/ validBoards # <<>>
DidAdjustSteps == geminiCalls.adjust > 0
DidRetrySteps == submitted # <<>> /\ submitted[1] = body.beatovenPrompt

\* C21: every request that gets past the credentials check runs exactly one
\* of the paths fresh, retry, adjust, the one its fields ask for, and no run
\* performs steps of two modes: a run that issues the adjust revision call or
\* submits the stored prompt unchanged issues no brief or refinement call,
\* and a run that issues brief calls issues no adjust revision call.
C21_OnePathPerRun ==
    /\ path \in { "none", "fresh", "retry", "adjust" }
    /\ (pc # "start" /\ CredentialsSet) => path # "none"
    /\ (pc # "start" /\ ~CredentialsSet) => (path = "none" /\ NoExternalCall)
    /\ (path # "none" /\ RetryRequest) => path = "retry"
    /\ (path # "none" /\ AdjustRequest) => path = "adjust"
    /\ (path # "none" /\ PlainRequest) => path = "fresh"
    /\ DidBriefSteps => (path = "fresh" /\ ~DidAdjustSteps /\ ~DidRetrySteps)
    /\ DidAdjustSteps => (path = "adjust" /\ ~DidBriefSteps /\ ~DidRetrySteps)
    /\ DidRetrySteps => (path = "retry" /\ ~DidBriefSteps /\ ~DidAdjustSteps)
    /\ Len(submitted) <= 1

\* an adjust request that carries an eligible board has run the adjust steps
\* only
C21_Witness ==
    /\ pc = "done"
    /\ AdjustRequest
    /\ Len(boards) = 1
    /\ Eligible(boards[1])
    /\ path = "adjust"
    /\ geminiCalls = [brief |-> 0, refine |-> 0, adjust |-> 1]
    /\ response.http = 200

\* C22: in retry mode with a stored prompt the text submitted to the compose
\* service is that exact string, the run issues no brief call and no
\* refinement call whatever the boards are, and the success response returns
\* the same string as beatovenPrompt.
C22_RetryResubmitsStoredPrompt ==
    (body.retryMode /\ HasStoredPrompt /\ CredentialsSet /\ pc # "start") =>
        /\ path = "retry"
        /\ submitted = << body.beatovenPrompt >>
        /\ promptToSend = body.beatovenPrompt
        /\ geminiCalls = [brief |-> 0, refine |-> 0, adjust |-> 0]
        /\ validBoards = <<>>
        /\ perBoardResults = <<>>
        /\ response.http = 200 =>
             /\ "beatovenPrompt" \in response.fields
             /\ response.beatovenPrompt = body.beatovenPrompt
             /\ "perBoardResults" \notin response.fields

C22_Witness ==
    /\ pc = "done"
    /\ body.retryMode
    /\ ~body.adjustMode
    /\ Len(boards) = 1
    /\ Eligible(boards[1])
    /\ submitted = << <<"calm", "piano">> >>
    /\ response.http = 200
    /\ response.beatovenPrompt = <<"calm", "piano">>

\* C23 as stated: a request that sets retryMode or adjustMode and has no
\* stored prompt is answered with a validation error; it runs no brief or
\* refinement stage and issues no external call, also when it carries
\* eligible boards.
C23_MissingPromptIsValidationError ==
    ((body.retryMode \/ body.adjustMode) /\ ~HasStoredPrompt /\ CredentialsSet
        /\ pc # "start") =>
        /\ pc = "done"
        /\ response.http = 400
        /\ "error" \in response.fields
        /\ NoExternalCall

\* C24 as stated: an adjust request whose instructions are empty or only
\* whitespace is answered with a validation error before any network call:
\* no revision call, no brief call, no compose submission.
C24_BlankInstructionsIsValidationError ==
    (body.adjustMode /\ ~body.retryMode /\ HasStoredPrompt /\ BlankInstructions
        /\ CredentialsSet /\ pc # "start") =>
        /\ pc = "done"
        /\ response.http = 400
        /\ "error" \in response.fields
        /\ NoExternalCall

\* C25: in adjust mode with a stored prompt and instructions the run issues
\* exactly one revision call and no brief or refinement call; what it then
\* submits, once, is the prompt made from the revision response and not the
\* stored prompt; polling follows the submission; the success response
\* returns the submitted prompt.
C25_AdjustRevisesThenSubmits ==
    (AdjustRequest /\ CredentialsSet /\ pc # "start") =>
        /\ path = "adjust"
        /\ geminiCalls = [brief |-> 0, refine |-> 0, adjust |-> 1]
        /\ validBoards = <<>>
        /\ Len(submitted) <= 1
        /\ pc = "adjustAwait" => (submitted = <<>> /\ polls = 0)
        /\ polls > 0 => submitted # <<>>
        /\ submitted # <<>> =>
             /\ submitted[1] # body.beatovenPrompt
             /\ submitted[1] # Undef
             /\ submitted[1] # <<>>
             /\ promptToSend = submitted[1]
        /\ response.http = 200 =>
             /\ submitted # <<>>
             /\ polls > 0
             /\ response.beatovenPrompt = submitted[1]

C25_Witness ==
    /\ pc = "done"
    /\ AdjustRequest
    /\ geminiCalls.adjust = 1
    /\ submitted = << <<"calm", "piano", "faster">> >>
    /\ polls = 1
    /\ response.http = 200
    /\ response.beatovenPrompt = <<"calm", "piano", "faster">>

\* ---------------------------------------------------- response claims
ValidationErrors == { "No boards provided", "No valid boards to analyze" }
UpstreamErrors ==
    { "No task_id returned", "Beatoven composition failed", "Beatoven compose timed out" }

\* C26: every error response of a validation failure has HTTP status 400,
\* every error response of an upstream failure or of a timeout (no task id,
\* composition failed, poll ceiling exceeded) has HTTP status 500, and every
\* failure response carries an error field; status 400 is used for nothing
\* else and a success response carries no error.
C26_StatusReflectsFailureKind ==
    pc = "done" =>
        /\ response.http \in { 200, 400, 500 }
        /\ response.error \in ValidationErrors => response.http = 400
        /\ response.error \in UpstreamErrors => response.http = 500
        /\ response.http = 400 => response.error \in ValidationErrors
        /\ response.http # 200 => ("error" \in response.fields /\ response.error # Absent)
        /\ response.http = 200 => ("error" \notin response.fields /\ response.error = Absent)
        /\ taskStatus \in { "Failed", "TimedOut" } =>
             (response.http = 500 /\ response.error \in UpstreamErrors)
        /\ (FreshRequest /\ NoEligibleBoard /\ CredentialsSet) => response.http = 400

C26_Witness ==
    /\ pc = "done"
    /\ response.http = 400
    /\ response.error = "No boards provided"
    /\ body.retryMode
    /\ NoExternalCall

\* C27: every run of the handler ends with a response, provided every call it
\* waits for returns or fails: the brief calls, refinement calls, compose
\* submissions and status polls of a run are bounded, so no mode polls or
\* waits forever.
C27_EveryRunTerminates ==
    /\ [](/\ geminiCalls.brief <= 4
          /\ geminiCalls.refine <= 1
          /\ geminiCalls.adjust <= 1
          /\ Len(submitted) <= 1
          /\ polls <= 90
          /\ attempts <= 91)
    /\ <>[](pc = "done" /\ response.http \in { 200, 400, 500 })

\* a run that polled up to the ceiling has ended
C27_Witness ==
    /\ pc = "done"
    /\ path = "adjust"
    /\ polls = 90
    /\ attempts = 91
    /\ response.http = 500
    /\ response.status = "timed_out"

\* ------------------------------------------------------ duration claims
\* the fallback of the duration rule as the claims state it
FallbackDuration(n, total) == IF total \div n > 15 THEN total \div n ELSE 15

\* C28: the per-board duration depends on the number of analyzed boards only:
\* for 1 to 4 boards it is the table value (60, 30, 20, 15) whatever
\* totalDuration the request carries, and max(15, totalDuration / count) is
\* the value only for counts outside the table.
C28_DurationDependsOnCountOnly ==
    BriefsStarted =>
        /\ Len(limitedBoards) \in 1..4
        /\ \A t \in { 0, 30, 60, 120, totalDuration } :
             PerBoardDuration(Len(limitedBoards), t) = MapDuration(Len(limitedBoards))
        /\ \A i \in DOMAIN perBoardResults :
             (Settled(i) /\ perBoardResults[i].error = Absent) =>
                 perBoardResults[i].segment_duration = MapDuration(Len(limitedBoards))
        /\ \A n \in 5..8 :
             PerBoardDuration(n, totalDuration) = FallbackDuration(n, totalDuration)

C28_Witness ==
    /\ body.totalDuration = 120
    /\ Len(limitedBoards) = 2
    /\ Settled(1)
    /\ perBoardResults[1].error = Absent
    /\ perBoardResults[1].segment_duration = 30

\* ------------------------------------------------ fallback prompt claims
Positions(t, tok) == { i \in DOMAIN t : t[i] = tok }
\* the entry of the k-th Brief: number, name, text, duration annotation; a
\* failed Brief has neither text nor duration and both print as undefined
ExpectedEntry(r, k) ==
    <<"Segment", ToString(k), "(", r.name, "):">>
    \o (IF r.error = Absent THEN r.brief ELSE <<"undefined">>)
    \o <<"Duration:",
         IF r.error = Absent THEN ToString(r.segment_duration) ELSE "undefined",
         "s.">>
\* the fallback prompt has one entry per Brief, numbered 1..N in Brief order
HasEntries(p) ==
    /\ Cardinality(Positions(p, "Segment")) = Len(perBoardResults)
    /\ \A k \in DOMAIN perBoardResults :
         LET i == NthOf(Positions(p, "Segment"), k)
             e == ExpectedEntry(perBoardResults[k], k)
         IN  /\ i + Len(e) - 1 <= Len(p)
             /\ SubSeq(p, i, i + Len(e) - 1) = e
\* the coherence instructions are in the prompt, once
HasHints(p) == Cardinality(Positions(p, "Ensure")) = 1 /\ "crossfade" \in Tokens(p)

C30_ConflictingFlagsRejected ==
    (body.retryMode /\ body.adjustMode /\ CredentialsSet /\ pc # "start") =>
        /\ pc = "done"
        /\ response.http = 400
        /\ "error" \in response.fields
        /\ path \notin { "retry", "adjust" }
        /\ NoExternalCall

\* ------------------------------------------------------------------- C31
\* the request of the images endpoint carries exactly one image
OneImage == ImagesBase64(body) = <<"iVBOR">>

\* C31: the multi-board endpoint has issued no refinement call before the
\* briefs are joined and exactly one from then on, in every fresh run that
\* passed validation, one board left after filtering included; the
\* single-image endpoint, and the images endpoint given one image, issue no
\* refinement call and submit the brief of the image as it is.
C31_RefinementPerEndpoint ==
    /\ (path = "fresh" /\ limitedBoards # <<>>) =>
           geminiCalls.refine = (IF pc = "briefsAwait" THEN 0 ELSE 1)
    /\ (path = "fresh" /\ limitedBoards = <<>>) => geminiCalls.refine = 0
    /\ (path = "single" \/ (path = "images" /\ OneImage)) =>
           /\ geminiCalls.refine = 0
           /\ submitted # <<>> => submitted = <<perBoardResults[1].brief>>

\* a request of two boards of which one is left after filtering has had its
\* refinement call and its compose submission
C31_Witness ==
    /\ path = "fresh"
    /\ Len(boards) = 2
    /\ Len(limitedBoards) = 1
    /\ geminiCalls.refine = 1
    /\ Len(submitted) = 1

\* one image sent to the images endpoint was submitted without refinement
C31_OneImageSubmitted ==
    /\ path = "images"
    /\ OneImage
    /\ geminiCalls.refine = 0
    /\ submitted = <<GoodText>>

\* the image of the single-image endpoint was submitted without refinement
C31_SingleSubmitted ==
    /\ path = "single"
    /\ geminiCalls.refine = 0
    /\ submitted = <<GoodText>>

\* ------------------------------------------------------------------- C32
\* C32: a success response carries beatovenPrompt, and it is the text of
\* the one compose submission of the run: the refined prompt or else the
\* fallback prompt in a fresh run, the stored prompt in a retry run, a text
\* obtained from the revision call in an adjust run.
C32_ReturnedPromptIsSubmittedPrompt ==
    (pc = "done" /\ SaysComposed(response)) =>
        /\ "beatovenPrompt" \in response.fields
        /\ submitted = <<response.beatovenPrompt>>
        /\ path = "fresh" =>
               response.beatovenPrompt = PromptToSend(refinedPrompt, combinedPrompt)
        /\ path = "retry" => response.beatovenPrompt = beatovenPrompt
        /\ path = "adjust" =>
               \E o \in GeminiOutcomes(AdjustedText) :
                   ~o.throws /\ o.ok /\ response.beatovenPrompt = AdjustedPrompt(o.data)

\* an adjust run has succeeded and returns the revised prompt it submitted
C32_Witness ==
    /\ pc = "done"
    /\ path = "adjust"
    /\ SaysComposed(response)
    /\ response.beatovenPrompt = AdjustedText
    /\ submitted = <<AdjustedText>>
    /\ beatovenPrompt # AdjustedText

\* a retry run and a fresh run have succeeded
C32_RetrySucceeded == pc = "done" /\ path = "retry" /\ SaysComposed(response)
C32_FreshSucceeded ==
    pc = "done" /\ path = "fresh" /\ SaysComposed(response) /\ Truthy(refinedPrompt)

\* ------------------------------------------------------------------- C33
\* the revision call returned a success status and a revised text
RevisionSucceeded(o) == ~o.throws /\ o.ok /\ HasText(o.data)

\* C33 as stated: in an adjust run a composition is submitted only with the
\* revised text of a revision call that returned a success status; otherwise
\* the run ends with an error response and nothing is submitted, the stored
\* prompt included.
C33_FailedRevisionSubmitsNothing ==
    path = "adjust" =>
        /\ submitted # <<>> =>
               \E o \in GeminiOutcomes(AdjustedText) :
                   RevisionSucceeded(o) /\ submitted = <<AdjustedPrompt(o.data)>>
        /\ (pc = "done" /\ submitted = <<>>) =>
               (response.http = 500 /\ "error" \in response.fields)
        /\ submitted # <<beatovenPrompt>>

\* the part of C33 that the handler keeps: a revision call with a
\* non-success status ends the run with an error and nothing submitted, and
\* the stored prompt is never submitted
C33_NonSuccessStatusSubmitsNothing ==
    path = "adjust" =>
        /\ (pc = "done" /\ submitted = <<>>) =>
               (response.http = 500 /\ "error" \in response.fields)
        /\ submitted # <<beatovenPrompt>>
        /\ response.error = ErrorAdjustFailed => submitted = <<>>

\* an adjust run has submitted the serialized revision response
C33_SerializedResponseSubmitted ==
    /\ path = "adjust"
    /\ submitted = <<Stringify(GeminiData(TRUE, <<>>, FALSE, Undef))>>

\* ------------------------------------------------------------------- C34
\* C34: every text submitted to the compose service is a string that is
\* not empty, in the three modes and whatever the brief calls, the
\* refinement call and the revision call returned.
C34_SubmittedPromptNotEmpty ==
    \A k \in DOMAIN submitted : Truthy(submitted[k])

\* a fresh run whose one brief call failed and whose refinement call
\* returned no usable text has submitted its fallback prompt
C34_Witness ==
    /\ path = "fresh"
    /\ Len(perBoardResults) = 1
    /\ "error" \in perBoardResults[1].fields
    /\ ~Truthy(refinedPrompt)
    /\ Len(submitted) = 1
    /\ submitted[1] = combinedPrompt

\* ------------------------------------------------------------------- C35
\* the brief call of every analyzed board has settled with a failure
AllBriefsFailed ==
    /\ path = "fresh"
    /\ limitedBoards # <<>>
    /\ inflight = {}
    /\ \A i \in DOMAIN perBoardResults : "error" \in perBoardResults[i].fields
\* the responses of the compose and poll stages
ComposeStageErrors == { ErrorThrown, ErrorNoTaskId, ErrorFailed, ErrorTimedOut }

\* C35: a fresh run that analyzed boards ends only after its refinement
\* call and its one compose submission, with a success or an error of the
\* compose or poll stage, never with an error of a brief; and when every
\* brief call has failed the refinement call and the compose submission
\* still follow.
C35_BriefFailuresNeverEndRun ==
    /\ []((path = "fresh" /\ pc = "done" /\ limitedBoards # <<>>) =>
            /\ geminiCalls.refine = 1
            /\ Len(submitted) = 1
            /\ \/ SaysComposed(response)
               \/ response.http = 500 /\ response.error \in ComposeStageErrors)
    /\ (AllBriefsFailed ~> (geminiCalls.refine = 1 /\ Len(submitted) = 1))

\* a run whose brief calls all failed has ended with a track
C35_Witness ==
    /\ AllBriefsFailed
    /\ pc = "done"
    /\ SaysComposed(response)
    /\ response.trackUrl # Null

\* ------------------------------------------------------------------- C36
\* C36: with a credential missing no call is ever issued to either
\* service and no board is filtered, and the one step of the run answers
\* HTTP 500 with the credentials error, whatever the mode fields and the
\* boards of the request.
C36_MissingCredentialIs500 ==
    ~CredentialsSet =>
        /\ NoExternalCall
        /\ path = "none"
        /\ validBoards = <<>>
        /\ pc \in { "start", "done" }
        /\ pc = "done" => response = ErrorResponse(ErrorNoKeys, 500)

\* a plain request without boards, which validation would answer with 400,
\* was answered 500 because the compose credential is missing
C36_Witness ==
    /\ env.geminiKey
    /\ ~env.beatovenKey
    /\ PlainRequest
    /\ boards = <<>>
    /\ pc = "done"
    /\ response.http = 500
    /\ response.error = ErrorNoKeys

\* a retry request and an adjust request were answered 500 the same way
C36_ModeRequestAnswered ==
    /\ ~env.geminiKey
    /\ RetryRequest \/ AdjustRequest
    /\ pc = "done"
    /\ response.error = ErrorNoKeys

\* ------------------------------------------------------------------- C39
\* a candidate that is a reference: neither null or absent, nor empty
FirstNonEmpty(c) ==
    IF \A i \in DOMAIN c : ~TruthyStr(c[i]) THEN Null
    ELSE c[CHOOSE i \in DOMAIN c : TruthyStr(c[i]) /\ \A k \in 1..(i - 1) : ~TruthyStr(c[k])]
\* the run ended on a composed payload
EndedComposed == pc = "done" /\ IsComposed(lastPoll)

\* C39 as stated: the track reference returned is the first candidate that
\* is not null, in the order track_url, trackUrl, track.downloadUrl,
\* track.url, of the meta object or, without meta, of the payload.
C39_FirstNonNullCandidate ==
    EndedComposed =>
        response.trackUrl = FirstNonNull(TrackCandidates(TrackSource(lastPoll.json)))

\* C39 amended: the track reference returned is the first candidate that is
\* neither null nor the empty string, in that order, of the meta object or,
\* without meta, of the payload; null when there is none. A later candidate
\* is used only when every earlier one is absent, null or empty.
C39_FirstNonEmptyCandidate ==
    EndedComposed =>
        /\ response.trackUrl = FirstNonEmpty(TrackCandidates(TrackSource(lastPoll.json)))
        /\ \A i \in 1..4 :
               LET c == TrackCandidates(TrackSource(lastPoll.json))
               IN  (TruthyStr(c[i]) /\ response.trackUrl = c[i]) =>
                       \A k \in 1..(i - 1) : c[k] \in { Null, "" }

\* the payload has an empty track_url in meta and a reference in track.url:
\* the reference of track.url is returned, not the one at top level
C39_Witness ==
    /\ EndedComposed
    /\ lastPoll.json.meta # <<>>
    /\ lastPoll.json.meta[1].track_url = ""
    /\ lastPoll.json.meta[1].trackUrl = Null
    /\ lastPoll.json.meta[1].track = TrackObj(Null, "u-url")
    /\ lastPoll.json.top.track_url = "top-track_url"
    /\ response.trackUrl = "u-url"

\* ------------------------------------------------------------------- C37
\* C37 as stated: whenever analyzing is false the stage is idle, done or
\* cancelled: no request that has settled leaves the stage at analyzing or
\* composing.
C37_StageSettlesWithRequest ==
    ~analyzing => stage \in { "idle", "done", "cancelled" }

\* an analysis answered with an error has left the stage at analyzing
C37_StuckAnalyzing ==
    /\ ~analyzing
    /\ request = "none"
    /\ stage = "analyzing"
    /\ received.by = "analyze"
    /\ HasError(received.data)

\* the requests that do leave the stage settled: a success and a cancel
C37_SuccessOrCancelSettles ==
    (request = "none" /\ (received.thrown => received.by = "analyze" /\ signalAborted)
                      /\ (~received.thrown => HasTrackUrl(received.data))
                      /\ received.by # "none") =>
        stage \in { "done", "cancelled" }

\* ------------------------------------------------------------------- C38
\* the body read by the last analyzeDrawing carries an error and no trackUrl
AnalyzeGotError ==
    /\ request = "none"
    /\ received.by = "analyze"
    /\ ~received.thrown
    /\ HasError(received.data)
    /\ ~HasTrackUrl(received.data)

\* C38 as stated: after analyzeDrawing has read a body with an error field
\* and no trackUrl, the error shown is that error, the timeout body, which
\* also carries task_id, included.
C38_ErrorResponseIsShown ==
    AnalyzeGotError => error = received.data.error

\* the part the component keeps: the bodies without task_id
C38_ErrorWithoutTaskIdIsShown ==
    (AnalyzeGotError /\ ~HasTaskId(received.data)) => error = received.data.error

\* analyzeDrawing has read the timeout body and shows no error
C38_TimeoutNotShown ==
    /\ AnalyzeGotError
    /\ received.data.status = StatusTimedOut
    /\ error = Null
    /\ stage = "composing"

====
